---------------------------- MODULE Spec2Model ----------------------------
(***************************************************************************)
(* A model of the sweet compiler (KevinAlavik/sweet):                      *)
(*   - Parser.parse_block  (src/core/parser.py 478-639), the postfix AST   *)
(*     builder, one action per iteration of its while loop, its recursion  *)
(*     made explicit as a stack of frames;                                 *)
(*   - ASTNode.compile     (src/core/parser.py 23-463), the fused type     *)
(*     checker and emitter, as recursive operators over the AST;           *)
(*   - the emitted x86-64 text, executed one instruction per step on a     *)
(*     small stack machine, so that claims about the generated program     *)
(*     are checked against what the code really emits.                     *)
(*                                                                         *)
(* The token stream is the parser's input.  It is drawn one token at a     *)
(* time, whenever the parser calls lexer.get_next_token().                 *)
(***************************************************************************)
EXTENDS Integers, Sequences, FiniteSets, TLC

VARIABLES
    profile,        \* which token alphabet this compilation draws from
    phase,          \* "lex" | "lexed" | "interp" | "interpreted" | "parse" | "compile" | "run" | "done" | "error"
    err,            \* "" or the exception that ended the compilation
    cur,            \* Parser.current_token
    ntok,           \* tokens drawn from the lexer so far
    frames,         \* active parse_block calls, innermost last
    known_externs,  \* ctx.known_externs : name -> arity
    known_vars,     \* ctx.known_vars    : list of names
    declared,       \* the declarations parsed so far, in text order (ghost)
    ast,            \* the result of Parser.parse()
    ci,             \* index of the next top-level node to compile
    ctx,            \* the compilation context threaded through compile()
    code,           \* assembly lines emitted so far
    starts,         \* where each compiled top-level node's lines begin (ghost)
    pc,             \* run: index of the next instruction
    rstack,         \* run: the program's values on the native stack
    regs,           \* run: register file
    zf,             \* run: zero flag
    mem,            \* run: data labels -> value
    steps,          \* run: instructions executed
    npush,          \* run: number of pushes executed (ghost, numbers the values)
    underflow,      \* run: a pop found no value the program had pushed
    lx,             \* the Lexer object: src, pos, line, column, current_char
    tokens,         \* Lexer.lex: the local list `tokens`
    result,         \* Lexer.lex: what the call handed to its caller
    printed,        \* Lexer.lex: the LexerError its handler printed, or ""
    last,           \* the token the latest get_next_token() returned
    calls,          \* get_next_token() calls made after lex() ended
    interp,         \* the toy Interpreter object: its text, lexer pos, current_token, stack
    text            \* the source text as words, under the profiles that fix it

pvars == <<cur, ntok, frames, known_externs, known_vars, declared, text>>
cvars == <<ast, ci, ctx, code, starts>>
rvars == <<pc, rstack, regs, zf, mem, steps, npush, underflow>>
lvars == <<lx, tokens, result, printed, last, calls>>
vars  == <<profile, phase, err, cur, ntok, frames, known_externs, known_vars, declared,
           ast, ci, ctx, code, starts, pc, rstack, regs, zf, mem, steps, npush, underflow,
           lx, tokens, result, printed, last, calls, interp, text>>

----------------------------------------------------------------------------
(* Bounds *)

\* longest token sequence (EOF excluded) a compilation reads
MaxTokens == 5
\* instructions one run of the emitted program may execute
MaxSteps == 40
\* longest source text handed to the lexer, in characters
MaxSrc == 4
\* get_next_token() calls a caller makes after lex() has ended
MaxCalls == 2
\* longest arithmetic text given to both the interpreter and the compiler, in words
MaxWords == 4
\* longest if/else/end text given to the interpreter, in words
MaxNest == 7

----------------------------------------------------------------------------
(* Tokens *)

Tok(ty, v) == [type |-> ty, value |-> v]

EOFTok == Tok("EOF", "None")

\* BuiltinTypes
UInt == "UInt"
Char == "Char"
InlineString == "InlineString"

\* ctx.type_map: the type names a `var` declaration resolves
type_map == [uint |-> UInt, char |-> Char]

\* ctx.type_sizes
type_sizes == [UInt |-> 8, Char |-> 1, InlineString |-> 8]

\* int(token.value) for the literals the alphabets contain
IntOf(v) ==
    CASE v = "0" -> 0
      [] v = "1" -> 1
      [] v = "2" -> 2
      [] v = "3" -> 3
      [] v = "6" -> 6
      [] v = "7" -> 7

IsIntText(v) == v \in {"0", "1", "2", "3", "6", "7"}

\* len(lit) of the string literals the alphabets contain
StrLen(v) ==
    CASE v = "a" -> 1
      [] v = "ab" -> 2
      [] OTHER -> 0


----------------------------------------------------------------------------
(* AST nodes: one record shape per ASTNode subclass *)

Number(value)              == [kind |-> "Number", value |-> value]
String(value)              == [kind |-> "String", value |-> value]
BinaryOp(op, left, right)  == [kind |-> "BinaryOp", op |-> op, left |-> left, right |-> right]
Dup                        == [kind |-> "Dup"]
PrintNode                  == [kind |-> "Print"]
Input                      == [kind |-> "Input"]
Compare(left, right)       == [kind |-> "Compare", left |-> left, right |-> right]
\* else_body None and [] are the same to compile ("if self.else_body:"): both <<>>
IfElse(condition, if_body, else_body) ==
    [kind |-> "IfElse", condition |-> condition, if_body |-> if_body, else_body |-> else_body]
Extern(ext)                == [kind |-> "Extern", ext |-> ext]
Call(func, arg_count)      == [kind |-> "Call", func |-> func, arg_count |-> arg_count]
ArrayDef(name, count, unit_size, base_type) ==
    [kind |-> "ArrayDef", name |-> name, count |-> count, unit_size |-> unit_size,
     base_type |-> base_type, size |-> count * unit_size]
LoadVar(name)              == [kind |-> "LoadVar", name |-> name]
LoadVarIdx(name, idx)      == [kind |-> "LoadVarIdx", name |-> name, idx |-> idx]
StoreVar(name)             == [kind |-> "StoreVar", name |-> name]
Bang                       == [kind |-> "Bang"]
BangWrapper(node)          == [kind |-> "BangWrapper", node |-> node]
Loop(condition, body)      == [kind |-> "Loop", condition |-> condition, body |-> body]
BlockExpr(expressions)     == [kind |-> "BlockExpr", expressions |-> expressions]

NoNode == [kind |-> "None"]

----------------------------------------------------------------------------
(* Token alphabets.  Every alphabet is a subset of what the parser accepts; *)
(* a compilation draws all its tokens from the alphabet of its profile.    *)

KwTok(v)  == Tok("KEYWORD", v)
IntTok(v) == Tok("INTLIT", v)
IdTok(v)  == Tok("IDENTIFIER", v)

Alphabet(p) ==
    CASE p = "if" ->
           {IntTok("0"), IntTok("1"), KwTok("if"), KwTok("else"), KwTok("end"), KwTok("dup")}
      [] p = "arith" ->
           {IntTok("1"), Tok("STRING", "a"), Tok("PLUS", "+"), KwTok("if"), KwTok("end"),
            KwTok("print")}
      [] p = "loop" ->
           {IntTok("0"), KwTok("loop"), KwTok("do"), KwTok("end"), KwTok("if"),
            KwTok("extern"), IdTok("f"), KwTok("var"), IdTok("uint")}
      [] p = "extern" ->
           {IntTok("0"), IntTok("1"), KwTok("extern"), IdTok("f"), IdTok("g"), KwTok("set")}
      [] p = "var" ->
           {IntTok("1"), Tok("STRING", "ab"), KwTok("var"), KwTok("set"), IdTok("x"),
            IdTok("uint"), IdTok("char"), Tok("LBRACK", "["), Tok("RBRACK", "]"),
            Tok("COMPARE", "?"), KwTok("input")}
      [] p = "ops" ->
           {IntTok("1"), IntTok("2"), Tok("STRING", "a"), Tok("MINUS", "-"),
            Tok("STAR", "*"), Tok("SLASH", "/"), Tok("BANG", "!"), Tok("COMPARE", "?")}

Profiles == {"if", "arith", "loop", "extern", "var", "ops"}

\* the longest token sequence of a profile: the alphabets with few tokens that
\* are accepted anywhere read longer texts
Budget(p) ==
    MaxTokens + (CASE p \in {"if", "arith", "var"} -> 1
                   [] p \in {"loop", "extern"} -> 2
                   [] OTHER -> 0)

\* the token the parser's lexer makes of a word of a fixed text
WordTok(w) ==
    CASE w = "+" -> Tok("PLUS", w)
      [] w = "-" -> Tok("MINUS", w)
      [] w = "*" -> Tok("STAR", w)
      [] w \in {"dup", "if", "else", "end", "loop", "do", "var", "set"} -> KwTok(w)
      [] w \in {"f", "uint"} -> IdTok(w)
      [] OTHER -> IntTok(w)

\* the i-th token of the text prog, EOF after its end
TextToken(prog, i) == IF i <= Len(prog) THEN WordTok(prog[i]) ELSE EOFTok

\* lexer.get_next_token(): the tokens the n-th call may return; the profiles
\* "ref" and "decl" fix the text
Draw(n) ==
    IF profile \in {"ref", "decl"} THEN {TextToken(text, n + 1)}
    ELSE IF n < Budget(profile) THEN Alphabet(profile) \cup {EOFTok} ELSE {EOFTok}

----------------------------------------------------------------------------
(* Parser state *)

\* one active call of parse_block: its until_keywords, its block_stack, and
\* the locals of the caller's suspended `if`/`loop` branch it returns into
Frame(ret, until, condition, if_body) ==
    [ret |-> ret, until |-> until, block_stack |-> <<>>,
     condition |-> condition, if_body |-> if_body]

Top == frames[Len(frames)]

\* frames with the innermost block_stack replaced
WithStack(bs) == [frames EXCEPT ![Len(frames)].block_stack = bs]

Pop1(s) == SubSeq(s, 1, Len(s) - 1)
Pop2(s) == SubSeq(s, 1, Len(s) - 2)
Last(s) == s[Len(s)]

\* parse_block breaking on any keyword, whatever until_keywords holds
AtStopAnyKeyword ==
    \/ cur.type = "EOF"
    \/ cur.type = "KEYWORD"

\* while self.current_token.type != EOF: ... if KEYWORD in until_keywords: break
AtStop ==
    \/ cur.type = "EOF"
    \/ cur.type = "KEYWORD" /\ cur.value \in Top.until

Iter == phase = "parse" /\ ~AtStop

\* the loop goes on with token t as current_token after n more draws
ContinueReg(t, n, fr, ke, kv, d) ==
    /\ cur' = t
    /\ ntok' = ntok + n
    /\ frames' = fr
    /\ known_externs' = ke
    /\ known_vars' = kv
    /\ declared' = declared \o d
    /\ text' = text
    /\ UNCHANGED <<interp, lvars, profile, phase, err, cvars, rvars>>

Continue(t, n, fr) == ContinueReg(t, n, fr, known_externs, known_vars, <<>>)

\* an exception leaves parse_block: the compilation ends
Raise(e) ==
    /\ phase' = "error"
    /\ err' = e
    /\ UNCHANGED <<interp, lvars, profile, pvars, cvars, rvars>>

ParserError == "ParserError"


----------------------------------------------------------------------------
(* Parser.parse_block: one action per branch of the loop body *)

\* INTLIT: push Number, or BangWrapper(Number) when `!` follows at once
ParseIntlit ==
    /\ Iter /\ cur.type = "INTLIT"
    /\ \E t1 \in Draw(ntok) :
         IF t1.type = "BANG"
         THEN \E t2 \in Draw(ntok + 1) :
                Continue(t2, 2, WithStack(Append(Top.block_stack, BangWrapper(Number(cur.value)))))
         ELSE Continue(t1, 1, WithStack(Append(Top.block_stack, Number(cur.value))))

\* the block_stack after a binary operator or `?` merged its top two nodes
MergeBinary(bs, node) == Append(Pop2(bs), node)

\* + - * / : pop right, pop left, push BinaryOp(op, left, right)
ParseBinary ==
    /\ Iter /\ cur.type \in {"PLUS", "MINUS", "STAR", "SLASH"}
    /\ \E t1 \in Draw(ntok) :
         LET bs == Top.block_stack IN
         IF Len(bs) < 2
         THEN Raise(ParserError)
         ELSE Continue(t1, 1, WithStack(MergeBinary(bs,
                  BinaryOp(cur.value, bs[Len(bs) - 1], bs[Len(bs)]))))

ParseString ==
    /\ Iter /\ cur.type = "STRING"
    /\ \E t1 \in Draw(ntok) :
         Continue(t1, 1, WithStack(Append(Top.block_stack, String(cur.value))))

\* the `?` branch testing for one operand where two are popped
ParseCompareOneOperand ==
    /\ Iter /\ cur.type = "COMPARE"
    /\ \E t1 \in Draw(ntok) :
         LET bs == Top.block_stack IN
         IF Len(bs) < 1
         THEN Raise(ParserError)
         ELSE Continue(t1, 1, WithStack(MergeBinary(bs, Compare(bs[1], bs[Len(bs)]))))

\* ? : pop right, pop left, push Compare(left, right)
ParseCompare ==
    /\ Iter /\ cur.type = "COMPARE"
    /\ \E t1 \in Draw(ntok) :
         LET bs == Top.block_stack IN
         IF Len(bs) < 2
         THEN Raise(ParserError)
         ELSE Continue(t1, 1, WithStack(MergeBinary(bs,
                  Compare(bs[Len(bs) - 1], bs[Len(bs)]))))

\* a `!` that does not follow an INTLIT: push a bare Bang()
ParseBang ==
    /\ Iter /\ cur.type = "BANG"
    /\ \E t1 \in Draw(ntok) :
         Continue(t1, 1, WithStack(Append(Top.block_stack, Bang)))

\* dup, print, input: push the marker node
ParseSimpleKeyword ==
    /\ Iter /\ cur.type = "KEYWORD" /\ cur.value \in {"dup", "print", "input"}
    /\ \E t1 \in Draw(ntok) :
         LET node == CASE cur.value = "dup" -> Dup
                       [] cur.value = "print" -> PrintNode
                       [] cur.value = "input" -> Input
         IN Continue(t1, 1, WithStack(Append(Top.block_stack, node)))

\* if: pop the condition, then call parse_block({"else", "end"})
ParseIf ==
    /\ Iter /\ cur.type = "KEYWORD" /\ cur.value = "if"
    /\ \E t1 \in Draw(ntok) :
         LET bs == Top.block_stack IN
         IF Len(bs) < 1
         THEN Raise(ParserError)
         ELSE Continue(t1, 1,
                  Append(WithStack(Pop1(bs)), Frame("if_body", {"else", "end"}, Last(bs), <<>>)))

\* parse_block({"else", "end"}) returned if_body into the `if` branch
ReturnIfBody ==
    /\ phase = "parse" /\ AtStop /\ Top.ret = "if_body"
    /\ LET outer == Pop1(frames)
           if_body == Top.block_stack
       IN
       IF cur.type = "KEYWORD" /\ cur.value = "else"
       THEN \E t1 \in Draw(ntok) :
              Continue(t1, 1, Append(outer, Frame("else_body", {"end"}, Top.condition, if_body)))
       ELSE IF cur.type = "KEYWORD" /\ cur.value = "end"
       THEN \E t1 \in Draw(ntok) :
              Continue(t1, 1, [outer EXCEPT ![Len(outer)].block_stack =
                  Append(@, IfElse(Top.condition, if_body, <<>>))])
       ELSE Raise(ParserError)

\* parse_block({"end"}) returned else_body into the `if` branch
ReturnElseBody ==
    /\ phase = "parse" /\ AtStop /\ Top.ret = "else_body"
    /\ LET outer == Pop1(frames) IN
       IF cur.type = "KEYWORD" /\ cur.value = "end"
       THEN \E t1 \in Draw(ntok) :
              Continue(t1, 1, [outer EXCEPT ![Len(outer)].block_stack =
                  Append(@, IfElse(Top.condition, Top.if_body, Top.block_stack))])
       ELSE Raise(ParserError)

\* loop: call parse_block({"do"}) for the condition
ParseLoop ==
    /\ Iter /\ cur.type = "KEYWORD" /\ cur.value = "loop"
    /\ \E t1 \in Draw(ntok) :
         Continue(t1, 1, Append(frames, Frame("loop_cond", {"do"}, NoNode, <<>>)))

\* parse_block({"do"}) returned condition_expr: it must be non-empty, then
\* eat(KEYWORD) and call parse_block({"end"}) for the body
ReturnLoopCond ==
    /\ phase = "parse" /\ AtStop /\ Top.ret = "loop_cond"
    /\ LET condition_expr == Top.block_stack IN
       IF condition_expr = <<>>
       THEN Raise(ParserError)
       ELSE IF cur.type # "KEYWORD"
       THEN Raise(ParserError)
       ELSE \E t1 \in Draw(ntok) :
              Continue(t1, 1, Append(Pop1(frames),
                  Frame("loop_body", {"end"}, BlockExpr(condition_expr), <<>>)))

\* the loop branch pushing the Loop node without looking for `end`
ReturnLoopBodyNoEnd ==
    /\ phase = "parse" /\ AtStop /\ Top.ret = "loop_body"
    /\ LET outer == Pop1(frames) IN
       \E t1 \in Draw(ntok) :
          Continue(t1, 1, [outer EXCEPT ![Len(outer)].block_stack =
              Append(@, Loop(Top.condition, Top.block_stack))])

\* parse_block({"end"}) returned loop_body
ReturnLoopBody ==
    /\ phase = "parse" /\ AtStop /\ Top.ret = "loop_body"
    /\ LET outer == Pop1(frames) IN
       IF cur.type = "KEYWORD" /\ cur.value = "end"
       THEN \E t1 \in Draw(ntok) :
              Continue(t1, 1, [outer EXCEPT ![Len(outer)].block_stack =
                  Append(@, Loop(Top.condition, Top.block_stack))])
       ELSE Raise(ParserError)


\* one parsed declaration: `extern name n`, or `var name ...` (n is 0)
Decl(kind, name, n) == [kind |-> kind, name |-> name, n |-> n]

\* an extern table that keeps the arity a name was first registered with
RegisterExternKeepFirst(ke, name, args) == ke @@ (name :> args)

\* self.ctx.known_externs[name] = args
RegisterExtern(ke, name, args) == (name :> args) @@ ke

\* extern NAME n: register the arity, push Extern(NAME)
ParseExtern ==
    /\ Iter /\ cur.type = "KEYWORD" /\ cur.value = "extern"
    /\ \E t1 \in Draw(ntok) :
         IF t1.type # "IDENTIFIER" THEN Raise(ParserError)
         ELSE \E t2 \in Draw(ntok + 1) :
           IF t2.type # "INTLIT" THEN Raise(ParserError)
           ELSE \E t3 \in Draw(ntok + 2) :
             ContinueReg(t3, 3, WithStack(Append(Top.block_stack, Extern(t1.value))),
                         RegisterExtern(known_externs, t1.value, IntOf(t2.value)),
                         known_vars, <<Decl("extern", t1.value, IntOf(t2.value))>>)

\* the tail of the `var` branch: register the name, push the ArrayDef, and take
\* an inline string initialiser when one follows (t is the current token)
VarTail(t, n, node) ==
    IF t.type = "STRING"
    THEN IF StrLen(t.value) > node.count
         THEN Raise(ParserError)
         ELSE \E t8 \in Draw(ntok + n) :
                ContinueReg(t8, n + 1,
                    WithStack(Top.block_stack \o <<node, String(t.value)>>),
                    known_externs, Append(known_vars, node.name),
                    <<Decl("var", node.name, 0)>>)
    ELSE ContinueReg(t, n, WithStack(Append(Top.block_stack, node)),
                     known_externs, Append(known_vars, node.name),
                     <<Decl("var", node.name, 0)>>)

\* var NAME <keyword> TYPE [ '[' COUNT ']' ] [ STRING ]
ParseVar ==
    /\ Iter /\ cur.type = "KEYWORD" /\ cur.value = "var"
    /\ \E t1 \in Draw(ntok) :
         IF t1.type # "IDENTIFIER" THEN Raise(ParserError)
         ELSE \E t2 \in Draw(ntok + 1) :
           IF t2.type # "KEYWORD" THEN Raise(ParserError)
           ELSE \E t3 \in Draw(ntok + 2) :
             IF t3.value \notin DOMAIN type_map THEN Raise("KeyError")
             ELSE IF t3.type # "IDENTIFIER" THEN Raise(ParserError)
             ELSE \E t4 \in Draw(ntok + 3) :
               LET base_type == type_map[t3.value]
                   unit_size == type_sizes[base_type]
               IN
               IF t4.type = "LBRACK"
               THEN \E t5 \in Draw(ntok + 4) :
                      IF ~IsIntText(t5.value) THEN Raise("ValueError")
                      ELSE IF t5.type # "INTLIT" THEN Raise(ParserError)
                      ELSE \E t6 \in Draw(ntok + 5) :
                        IF t6.type # "RBRACK" THEN Raise(ParserError)
                        ELSE \E t7 \in Draw(ntok + 6) :
                          VarTail(t7, 7, ArrayDef(t1.value, IntOf(t5.value), unit_size, base_type))
               ELSE VarTail(t4, 4, ArrayDef(t1.value, 1, unit_size, base_type))

\* set NAME: push StoreVar(NAME); the name is not looked up
ParseSet ==
    /\ Iter /\ cur.type = "KEYWORD" /\ cur.value = "set"
    /\ \E t1 \in Draw(ntok) :
         IF t1.type # "IDENTIFIER" THEN Raise(ParserError)
         ELSE \E t2 \in Draw(ntok + 1) :
                Continue(t2, 2, WithStack(Append(Top.block_stack, StoreVar(t1.value))))

InList(x, s) == \E i \in 1..Len(s) : s[i] = x

\* the node an IDENTIFIER in statement position becomes: Call for a known
\* extern (looked up first), else a variable load, else nothing
IdentifierKind(name, ke, kv) ==
    IF name \in DOMAIN ke THEN "Call"
    ELSE IF InList(name, kv) THEN "LoadVar"
    ELSE "Unknown"

ParseIdentifier ==
    /\ Iter /\ cur.type = "IDENTIFIER"
    /\ LET name == cur.value
           k == IdentifierKind(name, known_externs, known_vars)
       IN
       CASE k = "Call" ->
              \E t1 \in Draw(ntok) :
                Continue(t1, 1, WithStack(Append(Top.block_stack,
                    Call(name, known_externs[name]))))
         [] k = "LoadVar" ->
              \E t1 \in Draw(ntok) :
                IF t1.type = "LBRACK"
                THEN \E t2 \in Draw(ntok + 1) :
                       IF t2.type # "INTLIT" THEN Raise(ParserError)
                       ELSE \E t3 \in Draw(ntok + 2) :
                         IF t3.type # "RBRACK" THEN Raise(ParserError)
                         ELSE \E t4 \in Draw(ntok + 3) :
                           Continue(t4, 4, WithStack(Append(Top.block_stack,
                               LoadVarIdx(name, t2.value))))
                ELSE Continue(t1, 1, WithStack(Append(Top.block_stack, LoadVar(name))))
         [] OTHER -> Raise(ParserError)

\* a keyword no branch handles (else, end, do outside their block, ...)
ParseUnexpectedKeyword ==
    /\ Iter /\ cur.type = "KEYWORD"
    /\ cur.value \notin {"dup", "print", "input", "if", "loop", "extern", "var", "set"}
    /\ Raise(ParserError)

\* any other token type
ParseUnexpectedToken ==
    /\ Iter
    /\ cur.type \notin {"INTLIT", "PLUS", "MINUS", "STAR", "SLASH", "STRING", "COMPARE",
                        "BANG", "KEYWORD", "IDENTIFIER"}
    /\ Raise(ParserError)

\* Parser.parse(): the outermost parse_block returns the AST
ParseDone ==
    /\ phase = "parse" /\ AtStop /\ Top.ret = "top"
    /\ ast' = Top.block_stack
    /\ phase' = "compile"
    /\ UNCHANGED <<interp, lvars, profile, err, pvars, ci, ctx, code, starts, rvars>>

ParseStep ==
    \/ ParseIntlit \/ ParseBinary \/ ParseString \/ ParseCompare \/ ParseBang
    \/ ParseSimpleKeyword \/ ParseIf \/ ReturnIfBody \/ ReturnElseBody
    \/ ParseLoop \/ ReturnLoopCond \/ ReturnLoopBody
    \/ ParseExtern \/ ParseVar \/ ParseSet \/ ParseIdentifier
    \/ ParseUnexpectedKeyword \/ ParseUnexpectedToken \/ ParseDone


----------------------------------------------------------------------------
(* Emitted assembly.  A line is a record; its text is given beside each    *)
(* constructor.  A label Ln is held as its number n.                       *)

\* t is the symbolic type of the value a load produces (not part of the text)
InsT(op, r, n, t) == [op |-> op, r |-> r, n |-> n, t |-> t]
Ins(op, r, n) == InsT(op, r, n, "")

PushImm(v)     == Ins("push_imm", v, 0)        \* push {value}
LeaStr(k)      == Ins("lea_str", "rax", k)     \* lea rax, [{label of pool entry k}]
Push(r)        == Ins("push", r, 0)            \* push r
PopR(r)        == Ins("pop", r, 0)             \* pop r
Arith(op)      == Ins(op, "", 0)               \* add/sub/imul rax, rbx; cqo; idiv rbx
Cmp0           == Ins("cmp0", "rax", 0)        \* cmp rax, 0
Je(l)          == Ins("je", "", l)             \* je Ln
Jmp(l)         == Ins("jmp", "", l)            \* jmp Ln
LabelDef(l)    == Ins("label", "", l)          \* Ln:
CallF(f)       == Ins("call", f, 0)            \* call f
ExternDecl(f)  == Ins("extern", f, 0)          \* extern f
MovRdiImm(k)   == Ins("mov_rdi_imm", "", k)    \* mov rdi, {size}
MovStore(l)    == Ins("mov_store", "", l)      \* mov [Ln], rax
MovLoad(l, t)  == InsT("mov_load", "", l, t)   \* mov rax, [Ln]
XorRax         == Ins("xor_rax", "", 0)        \* xor rax, rax
MovAlIdx(l, i, t) == InsT("mov_al_idx", i, l, t) \* mov al, [Ln + {idx}]
MovRsiRax      == Ins("mov_rsi_rax", "", 0)    \* mov rsi, rax
MovRdiMem(l)   == Ins("mov_rdi_mem", "", l)    \* mov rdi, [Ln]
MovRdxImm(k)   == Ins("mov_rdx_imm", "", k)    \* mov rdx, {count}
TestRax        == Ins("test_rax", "", 0)       \* test rax, rax
SeteAl         == Ins("sete_al", "", 0)        \* sete al
MovzxRaxAl     == Ins("movzx_rax_al", "", 0)   \* movzx rax, al

----------------------------------------------------------------------------
(* The compilation context *)

FreshCtx ==
    [stack_depth |-> 0, stack_types |-> <<>>, label_counter |-> 0,
     strings |-> <<>>, vars |-> <<>>]

\* ctx.new_label(): a pure counter L0, L1, ...
new_label(c) == [label |-> c.label_counter,
                 ctx |-> [c EXCEPT !.label_counter = @ + 1]]

\* ctx.add_string(value): the pool is keyed by the literal's text
add_string(c, value) ==
    IF InList(value, c.strings)
    THEN [label |-> CHOOSE i \in 1..Len(c.strings) : c.strings[i] = value, ctx |-> c]
    ELSE [label |-> Len(c.strings) + 1, ctx |-> [c EXCEPT !.strings = Append(@, value)]]

\* what compile() gives: the context as it left it, the lines it returned, and
\* the exception it raised ("" when it returned)
Ok(c, lines) == [ctx |-> c, code |-> lines, err |-> ""]
Err(c, e)    == [ctx |-> c, code |-> <<>>, err |-> e]

StackUnderflow == "StackUnderflow"
TypeMismatch   == "TypeMismatch"
UndefinedVar   == "UndefinedVar"

PushType(c, t) == [c EXCEPT !.stack_depth = @ + 1, !.stack_types = Append(@, t)]

RECURSIVE Compile(_, _)
RECURSIVE CompileSeq(_, _)

NumberCompile(node, c) == Ok(PushType(c, UInt), <<PushImm(node.value)>>)

StringCompile(node, c) ==
    LET s == add_string(c, node.value) IN
    Ok(PushType(s.ctx, InlineString), <<LeaStr(s.label), Push("rax")>>)

\* the instruction(s) of one arithmetic operator
BinaryOpCode(op) ==
    CASE op = "+" -> <<Arith("add")>>
      [] op = "-" -> <<Arith("sub")>>
      [] op = "*" -> <<Arith("imul")>>
      [] op = "/" -> <<Arith("cqo"), Arith("idiv")>>

\* the type check of BinaryOp: both popped types must be UInt
BinaryOpTypesOk(left_type, right_type) == right_type = UInt /\ left_type = UInt

\* BinaryOp.compile popping the operands into the registers the other way round
BinaryOpCompilePopsSwapped(node, c) ==
    LET l == Compile(node.left, c) IN
    IF l.err # "" THEN l ELSE
    LET r == Compile(node.right, l.ctx) IN
    IF r.err # "" THEN r ELSE
    LET c2 == r.ctx
        n == Len(c2.stack_types)
    IN
    IF n < 2 THEN Err(c2, StackUnderflow) ELSE
    LET c3 == [c2 EXCEPT !.stack_types = Pop2(@)] IN
    IF ~BinaryOpTypesOk(c2.stack_types[n - 1], c2.stack_types[n])
    THEN Err(c3, TypeMismatch) ELSE
    Ok([c3 EXCEPT !.stack_types = Append(@, UInt), !.stack_depth = @ - 1],
       l.code \o r.code \o <<PopR("rax"), PopR("rbx")>> \o BinaryOpCode(node.op)
              \o <<Push("rax")>>)

BinaryOpCompile(node, c) ==
    LET l == Compile(node.left, c) IN
    IF l.err # "" THEN l ELSE
    LET r == Compile(node.right, l.ctx) IN
    IF r.err # "" THEN r ELSE
    LET c2 == r.ctx
        n == Len(c2.stack_types)
    IN
    IF n < 2 THEN Err(c2, StackUnderflow) ELSE
    LET right_type == c2.stack_types[n]
        left_type  == c2.stack_types[n - 1]
        c3 == [c2 EXCEPT !.stack_types = Pop2(@)]
    IN
    IF ~BinaryOpTypesOk(left_type, right_type) THEN Err(c3, TypeMismatch) ELSE
    IF node.op \notin {"+", "-", "*", "/"} THEN Err(c3, "UnknownOperator") ELSE
    Ok([c3 EXCEPT !.stack_types = Append(@, UInt), !.stack_depth = @ - 1],
       l.code \o r.code \o <<PopR("rbx"), PopR("rax")>> \o BinaryOpCode(node.op)
              \o <<Push("rax")>>)

\* Dup tests the type stack, not stack_depth
DupCompile(node, c) ==
    IF Len(c.stack_types) < 1 THEN Err(c, StackUnderflow) ELSE
    Ok(PushType(c, Last(c.stack_types)), <<PopR("rax"), Push("rax"), Push("rax")>>)

PrintCompile(node, c) ==
    IF c.stack_depth = 0 THEN Err(c, StackUnderflow) ELSE
    IF c.stack_types = <<>> THEN Err(c, "IndexError") ELSE
    LET typ == Last(c.stack_types)
        c2 == [c EXCEPT !.stack_types = Pop1(@), !.stack_depth = @ - 1]
        f == IF typ \in {InlineString, Char} THEN "print_str" ELSE "print_int"
    IN Ok(c2, <<PopR("rdi"), Push("rbp"), CallF(f), PopR("rbp")>>)

\* BuiltinTypes has no member String: the append raises before it changes ctx
InputCompile(node, c) == Err(c, "AttributeError")

\* a type check of Compare that lets one string-like operand decide
CompareKindEitherString(lt, rt) ==
    IF lt \in {InlineString, Char} \/ rt \in {InlineString, Char} THEN "str" ELSE "int"

\* the type check of Compare: "str" for two string-like operands, "int" for
\* two numbers, "" for a mismatch
CompareKind(lt, rt) ==
    IF lt \in {InlineString, Char} /\ rt \in {InlineString, Char} THEN "str"
    ELSE IF lt = UInt /\ rt = UInt THEN "int"
    ELSE ""

CompareCompile(node, c) ==
    LET l == Compile(node.left, c) IN
    IF l.err # "" THEN l ELSE
    LET r == Compile(node.right, l.ctx) IN
    IF r.err # "" THEN r ELSE
    LET c2 == r.ctx
        n == Len(c2.stack_types)
    IN
    IF n < 2 THEN Err(c2, StackUnderflow) ELSE
    LET rt == c2.stack_types[n]
        lt == c2.stack_types[n - 1]
        c3 == [c2 EXCEPT !.stack_types = Pop2(@)]
        k == CompareKind(lt, rt)
    IN
    IF k = "" THEN Err(c3, TypeMismatch) ELSE
    Ok([c3 EXCEPT !.stack_types = Append(@, UInt), !.stack_depth = @ - 2 + 1],
       l.code \o r.code \o
       <<PopR("rsi"), PopR("rdi"), Push("rbp"),
         CallF(IF k = "str" THEN "compare_str" ELSE "compare_int"),
         PopR("rbp"), Push("rax")>>)


\* IfElse pops its condition: "pop rax" and stack_depth -= 1; stack_types is
\* left as it is
IfElsePopCondition(c) == [c EXCEPT !.stack_depth = @ - 1]

\* IfElse.compile asking the counter once and using that label for both ends
IfElseLabelsOnce(c) ==
    LET a == new_label(c)
    IN [else_label |-> a.label, end_label |-> a.label, ctx |-> a.ctx]

\* else_label = ctx.new_label(); end_label = ctx.new_label()
IfElseLabels(c) ==
    LET a == new_label(c)
        b == new_label(a.ctx)
    IN [else_label |-> a.label, end_label |-> b.label, ctx |-> b.ctx]

\* IfElse.compile branching to end_label where it should branch to else_label
IfElseCodeJeEnd(cond_code, else_label, end_label, if_code, else_code) ==
    cond_code \o <<PopR("rax"), Cmp0, Je(end_label)>> \o if_code
              \o <<Jmp(end_label), LabelDef(else_label)>> \o else_code
              \o <<LabelDef(end_label)>>

\* the lines IfElse.compile returns
IfElseCode(cond_code, else_label, end_label, if_code, else_code) ==
    cond_code \o <<PopR("rax"), Cmp0, Je(else_label)>> \o if_code
              \o <<Jmp(end_label), LabelDef(else_label)>> \o else_code
              \o <<LabelDef(end_label)>>

IfElseCompile(node, c) ==
    LET cond == Compile(node.condition, c) IN
    IF cond.err # "" THEN cond ELSE
    IF cond.ctx.stack_depth = 0 THEN Err(cond.ctx, StackUnderflow) ELSE
    LET ls == IfElseLabels(IfElsePopCondition(cond.ctx))
        ib == CompileSeq(node.if_body, ls.ctx)
    IN
    IF ib.err # "" THEN ib ELSE
    LET eb == IF node.else_body # <<>> THEN CompileSeq(node.else_body, ib.ctx)
              ELSE Ok(ib.ctx, <<>>)
    IN
    IF eb.err # "" THEN eb ELSE
    Ok(eb.ctx, IfElseCode(cond.code, ls.else_label, ls.end_label, ib.code, eb.code))

ExternCompile(node, c) == Ok(c, <<ExternDecl(node.ext)>>)

arg_regs == <<"rdi", "rsi", "rdx", "rcx", "r8", "r9">>

\* Call.compile popping the argument registers first to last
CallPopsForward(arg_count) == [k \in 1..arg_count |-> PopR(arg_regs[k])]

\* for i in reversed(range(arg_count)): pop arg_regs[i]
CallPops(arg_count) == [k \in 1..arg_count |-> PopR(arg_regs[arg_count + 1 - k])]

\* Call tests stack_depth, then pops one type per argument
CallCompile(node, c) ==
    LET n == node.arg_count IN
    IF c.stack_depth < n THEN Err(c, StackUnderflow) ELSE
    IF n > Len(arg_regs) THEN Err(c, "IndexError") ELSE
    IF Len(c.stack_types) < n THEN Err(c, "IndexError") ELSE
    LET c2 == [c EXCEPT !.stack_types = SubSeq(@, 1, Len(@) - n),
                        !.stack_depth = @ - n]
    IN Ok(PushType(c2, UInt),
          CallPops(n) \o <<Push("rbp"), CallF(node.func), PopR("rbp"), Push("rax")>>)

\* ctx.vars[name] = [label, size, base_type, count]
VarDesc(label, node) ==
    [label |-> label, size |-> node.size, type |-> node.base_type, count |-> node.count]

\* an ArrayDef.compile that leaves the variable's address on the symbolic stack
ArrayDefCompilePushes(node, c) ==
    LET l == new_label(c)
        c2 == [l.ctx EXCEPT !.vars = (node.name :> VarDesc(l.label, node)) @@ @]
    IN Ok(PushType(c2, UInt),
          <<MovRdiImm(node.size), Push("rbp"), CallF("new"), PopR("rbp"),
            MovStore(l.label), Push("rax")>>)

ArrayDefCompile(node, c) ==
    LET l == new_label(c)
        c2 == [l.ctx EXCEPT !.vars = (node.name :> VarDesc(l.label, node)) @@ @]
    IN Ok(c2, <<MovRdiImm(node.size), Push("rbp"), CallF("new"), PopR("rbp"),
                MovStore(l.label)>>)

LoadVarCompile(node, c) ==
    IF node.name \notin DOMAIN c.vars THEN Err(c, UndefinedVar) ELSE
    LET d == c.vars[node.name] IN
    Ok(PushType(c, d.type), <<MovLoad(d.label, d.type), Push("rax")>>)

LoadVarIdxCompile(node, c) ==
    IF node.name \notin DOMAIN c.vars THEN Err(c, UndefinedVar) ELSE
    LET d == c.vars[node.name] IN
    Ok(PushType(c, d.type), <<XorRax, MovAlIdx(d.label, node.idx, d.type), Push("rax")>>)

StoreVarCompile(node, c) ==
    IF c.stack_depth < 1 THEN Err(c, StackUnderflow) ELSE
    IF node.name \notin DOMAIN c.vars THEN Err(c, UndefinedVar) ELSE
    IF c.stack_types = <<>> THEN Err(c, "IndexError") ELSE
    LET d == c.vars[node.name]
        val_type == Last(c.stack_types)
        c2 == [c EXCEPT !.stack_depth = @ - 1, !.stack_types = Pop1(@)]
    IN
    IF val_type = InlineString /\ d.type = Char
    THEN Ok(c2, <<PopR("rax"), MovRsiRax, MovRdiMem(d.label), MovRdxImm(d.count),
                  CallF("memcpy")>>)
    ELSE Ok(c2, <<PopR("rax"), MovStore(d.label)>>)

BangCompile(node, c) ==
    IF c.stack_depth = 0 \/ c.stack_types = <<>> THEN Err(c, StackUnderflow) ELSE
    LET top_type == Last(c.stack_types)
        c2 == [c EXCEPT !.stack_depth = @ - 1, !.stack_types = Pop1(@)]
    IN
    IF top_type = UInt
    THEN Ok(PushType(c2, UInt),
            <<PopR("rax"), TestRax, SeteAl, MovzxRaxAl, Push("rax")>>)
    ELSE Err(c2, TypeMismatch)

BangWrapperCompile(node, c) ==
    LET r == Compile(node.node, c) IN
    IF r.err # "" THEN r ELSE
    LET b == BangCompile(Bang, r.ctx) IN
    IF b.err # "" THEN b ELSE Ok(b.ctx, r.code \o b.code)

\* loop_label = ctx.new_label(); end_label = ctx.new_label()
LoopLabels(c) ==
    LET a == new_label(c)
        b == new_label(a.ctx)
    IN [loop_label |-> a.label, end_label |-> b.label, ctx |-> b.ctx]

\* Loop.compile putting loop_label after the condition's code
LoopCodeLabelAfterCond(loop_label, end_label, cond_code, body_code) ==
    cond_code \o <<LabelDef(loop_label), PopR("rax"), Cmp0, Je(end_label)>>
        \o body_code \o <<Jmp(loop_label), LabelDef(end_label)>>

\* the lines Loop.compile returns
LoopCode(loop_label, end_label, cond_code, body_code) ==
    <<LabelDef(loop_label)>> \o cond_code \o <<PopR("rax"), Cmp0, Je(end_label)>>
        \o body_code \o <<Jmp(loop_label), LabelDef(end_label)>>

LoopCompile(node, c) ==
    LET ls == LoopLabels(c)
        cond == Compile(node.condition, ls.ctx)
    IN
    IF cond.err # "" THEN cond ELSE
    IF cond.ctx.stack_depth = 0 THEN Err(cond.ctx, StackUnderflow) ELSE
    IF cond.ctx.stack_types = <<>> THEN Err(cond.ctx, "IndexError") ELSE
    LET c2 == [cond.ctx EXCEPT !.stack_depth = @ - 1, !.stack_types = Pop1(@)]
        body == CompileSeq(node.body, c2)
    IN
    IF body.err # "" THEN body ELSE
    Ok(body.ctx, LoopCode(ls.loop_label, ls.end_label, cond.code, body.code))

BlockExprCompile(node, c) == CompileSeq(node.expressions, c)

\* node.compile(ctx)
Compile(node, c) ==
    CASE node.kind = "Number"      -> NumberCompile(node, c)
      [] node.kind = "String"      -> StringCompile(node, c)
      [] node.kind = "BinaryOp"    -> BinaryOpCompile(node, c)
      [] node.kind = "Dup"         -> DupCompile(node, c)
      [] node.kind = "Print"       -> PrintCompile(node, c)
      [] node.kind = "Input"       -> InputCompile(node, c)
      [] node.kind = "Compare"     -> CompareCompile(node, c)
      [] node.kind = "IfElse"      -> IfElseCompile(node, c)
      [] node.kind = "Extern"      -> ExternCompile(node, c)
      [] node.kind = "Call"        -> CallCompile(node, c)
      [] node.kind = "ArrayDef"    -> ArrayDefCompile(node, c)
      [] node.kind = "LoadVar"     -> LoadVarCompile(node, c)
      [] node.kind = "LoadVarIdx"  -> LoadVarIdxCompile(node, c)
      [] node.kind = "StoreVar"    -> StoreVarCompile(node, c)
      [] node.kind = "Bang"        -> BangCompile(node, c)
      [] node.kind = "BangWrapper" -> BangWrapperCompile(node, c)
      [] node.kind = "Loop"        -> LoopCompile(node, c)
      [] node.kind = "BlockExpr"   -> BlockExprCompile(node, c)

\* for node in nodes: code += node.compile(ctx)
CompileSeq(nodes, c) ==
    IF nodes = <<>> THEN Ok(c, <<>>) ELSE
    LET h == Compile(Head(nodes), c) IN
    IF h.err # "" THEN h ELSE
    LET t == CompileSeq(Tail(nodes), h.ctx) IN
    IF t.err # "" THEN t ELSE Ok(t.ctx, h.code \o t.code)


----------------------------------------------------------------------------
(* The code generator's driver: compile the top-level nodes in document    *)
(* order with one context, then hand the lines to the assembler            *)

CompileNode ==
    /\ phase = "compile" /\ ci <= Len(ast)
    /\ LET r == Compile(ast[ci], ctx) IN
       /\ ctx' = r.ctx
       /\ IF r.err # ""
          THEN phase' = "error" /\ err' = r.err /\ UNCHANGED <<ci, code, starts>>
          ELSE /\ ci' = ci + 1 /\ code' = code \o r.code
               /\ starts' = Append(starts, Len(code) + 1)
               /\ UNCHANGED <<phase, err>>
    /\ UNCHANGED <<interp, lvars, profile, pvars, ast, rvars>>

CompileDone ==
    /\ phase = "compile" /\ ci > Len(ast)
    /\ phase' = "run"
    /\ UNCHANGED <<interp, lvars, profile, err, pvars, cvars, rvars>>

----------------------------------------------------------------------------
(* The emitted program, run.  A value carries the symbolic type of the     *)
(* construct that produced it and the number of the push that put it on    *)
(* the stack; neither exists in the machine, both are there to state       *)
(* claims about where a popped value came from.                            *)

Val(t, v) == [t |-> t, v |-> v, id |-> 0]

\* what a register holds that the program never set, and what a pop finds
\* below the program's own values
Junk == Val("Junk", 0)

RegNames == {"rax", "rbx", "rdi", "rsi", "rdx", "rcx", "r8", "r9", "rbp", "al"}

InitRegs == [r \in RegNames |-> IF r = "rbp" THEN Val("Frame", 1) ELSE Junk]

\* the line a jump to Ln lands on
LabelIndex(lines, l) ==
    IF \E i \in 1..Len(lines) : lines[i].op = "label" /\ lines[i].n = l
    THEN CHOOSE i \in 1..Len(lines) :
           /\ lines[i].op = "label" /\ lines[i].n = l
           /\ \A j \in 1..(i - 1) : ~(lines[j].op = "label" /\ lines[j].n = l)
    ELSE Len(lines) + 1

\* idiv truncates toward zero
TruncDiv(a, b) ==
    LET q == (IF a < 0 THEN -a ELSE a) \div (IF b < 0 THEN -b ELSE b)
    IN IF (a < 0) # (b < 0) THEN -q ELSE q

IsNum(x) == x.t \notin {"Junk"}

\* rax after add/sub/imul/idiv rax, rbx
ArithResult(op, a, b) ==
    IF ~IsNum(a) \/ ~IsNum(b) THEN Junk
    ELSE Val(UInt, CASE op = "add"  -> a.v + b.v
                     [] op = "sub"  -> a.v - b.v
                     [] op = "imul" -> a.v * b.v
                     [] op = "idiv" -> TruncDiv(a.v, b.v))

\* rax after `call f`; bit decides what the model does not determine
CallResult(f, rg, bit) ==
    CASE f = "new" -> Val("Heap", 1)
      [] f = "compare_int" ->
           IF IsNum(rg["rdi"]) /\ IsNum(rg["rsi"])
           THEN Val(UInt, IF rg["rdi"].v = rg["rsi"].v THEN 1 ELSE 0)
           ELSE Val(UInt, bit)
      [] f = "compare_str" ->
           IF rg["rdi"].t = InlineString /\ rg["rsi"].t = InlineString
           THEN Val(UInt, IF rg["rdi"].v = rg["rsi"].v THEN 1 ELSE 0)
           ELSE Val(UInt, bit)
      [] f = "memcpy" -> rg["rdi"]
      [] f \in {"print_int", "print_str"} -> Junk
      [] OTHER -> Val(UInt, bit)

Machine ==
    [pc |-> pc, rstack |-> rstack, regs |-> regs, zf |-> zf, mem |-> mem,
     npush |-> npush, underflow |-> underflow, fault |-> FALSE]

PushVal(m, x) ==
    [m EXCEPT !.rstack = Append(@, [x EXCEPT !.id = m.npush + 1]),
              !.npush = @ + 1, !.pc = @ + 1]

SetReg(m, r, x) == [m EXCEPT !.regs[r] = x, !.pc = @ + 1]

\* one instruction; bit decides what the model does not determine
Exec(ins, m, bit) ==
    CASE ins.op = "push_imm" -> PushVal(m, Val(UInt, IntOf(ins.r)))
      [] ins.op = "push" -> PushVal(m, m.regs[ins.r])
      [] ins.op = "pop" ->
           IF m.rstack = <<>>
           THEN [SetReg(m, ins.r, Junk) EXCEPT !.underflow = TRUE]
           ELSE [SetReg(m, ins.r, Last(m.rstack)) EXCEPT !.rstack = Pop1(@)]
      [] ins.op = "lea_str" -> SetReg(m, "rax", Val(InlineString, ins.n))
      [] ins.op \in {"add", "sub", "imul"} ->
           SetReg(m, "rax", ArithResult(ins.op, m.regs["rax"], m.regs["rbx"]))
      [] ins.op = "cqo" -> SetReg(m, "rdx", Junk)
      [] ins.op = "idiv" ->
           IF IsNum(m.regs["rbx"]) /\ m.regs["rbx"].v = 0
           THEN [m EXCEPT !.fault = TRUE]
           ELSE SetReg(m, "rax", ArithResult("idiv", m.regs["rax"], m.regs["rbx"]))
      [] ins.op \in {"cmp0", "test_rax"} ->
           [m EXCEPT !.zf = IF IsNum(m.regs["rax"]) THEN m.regs["rax"].v = 0 ELSE bit = 1,
                     !.pc = @ + 1]
      [] ins.op = "je" ->
           [m EXCEPT !.pc = IF m.zf THEN LabelIndex(code, ins.n) ELSE @ + 1]
      [] ins.op = "jmp" -> [m EXCEPT !.pc = LabelIndex(code, ins.n)]
      [] ins.op \in {"label", "extern"} -> [m EXCEPT !.pc = @ + 1]
      [] ins.op = "call" -> SetReg(m, "rax", CallResult(ins.r, m.regs, bit))
      [] ins.op = "mov_rdi_imm" -> SetReg(m, "rdi", Val(UInt, ins.n))
      [] ins.op = "mov_rdx_imm" -> SetReg(m, "rdx", Val(UInt, ins.n))
      [] ins.op = "mov_store" ->
           [m EXCEPT !.mem = (ins.n :> m.regs["rax"]) @@ @, !.pc = @ + 1]
      [] ins.op = "mov_load" ->
           SetReg(m, "rax", IF ins.n \in DOMAIN m.mem
                            THEN [m.mem[ins.n] EXCEPT !.t = ins.t] ELSE Junk)
      [] ins.op = "mov_rdi_mem" ->
           SetReg(m, "rdi", IF ins.n \in DOMAIN m.mem THEN m.mem[ins.n] ELSE Junk)
      [] ins.op = "xor_rax" -> SetReg(m, "rax", Val(UInt, 0))
      [] ins.op = "mov_al_idx" -> SetReg(m, "rax", Val(ins.t, bit))
      [] ins.op = "mov_rsi_rax" -> SetReg(m, "rsi", m.regs["rax"])
      [] ins.op = "sete_al" -> SetReg(m, "al", Val(UInt, IF m.zf THEN 1 ELSE 0))
      [] ins.op = "movzx_rax_al" -> SetReg(m, "rax", m.regs["al"])

RunStep ==
    /\ phase = "run" /\ pc <= Len(code) /\ steps < MaxSteps
    /\ \E bit \in {0, 1} :
         LET m == Exec(code[pc], Machine, bit) IN
         /\ pc' = m.pc /\ rstack' = m.rstack /\ regs' = m.regs /\ zf' = m.zf
         /\ mem' = m.mem /\ npush' = m.npush /\ underflow' = m.underflow
         /\ phase' = IF m.fault THEN "fault" ELSE "run"
    /\ steps' = steps + 1
    /\ UNCHANGED <<interp, lvars, profile, err, pvars, cvars>>

\* control runs off the last emitted line
RunEnd ==
    /\ phase = "run" /\ pc > Len(code)
    /\ phase' = "done"
    /\ UNCHANGED <<interp, lvars, profile, err, pvars, cvars, rvars>>

----------------------------------------------------------------------------
(* The lexer of src/core/lexer.py.  A source text is a sequence of          *)
(* one-character strings; Python's 0-based src[pos] is src[pos + 1] here.   *)

NL == "\n"
None == "None"

Spaces  == {" ", NL}
Digits  == {"0", "1"}
Letters == {"a", "b", "d", "e", "f", "i", "l", "n", "o", "p", "r", "s", "t", "u", "v", "x"}
WordChars == Letters \cup Digits \cup {"_", "-"}
\* the characters a source text is written in
AllChars == WordChars \cup Spaces \cup {"+", "*", "/", "?", "\"", "\\", "#", "!", "[", "]"}

\* token_map
token_map ==
    [c \in {"+", "-", "*", "/", "?"} |->
        CASE c = "+" -> "PLUS" [] c = "-" -> "MINUS" [] c = "*" -> "MULTIPLY"
          [] c = "/" -> "DIVIDE" [] c = "?" -> "COMPARE"]

\* keywords
keywords ==
    { <<"i", "f">>, <<"e", "l", "s", "e">>, <<"e", "n", "d">>, <<"d", "u", "p">>,
      <<"p", "r", "i", "n", "t">>, <<"i", "n", "p", "u", "t">>,
      <<"e", "x", "t", "e", "r", "n">> }

\* Token(type_, value, line, column)
Token(type_, value, line, column) ==
    [type |-> type_, value |-> value, line |-> line, column |-> column]

NoToken == Token("", None, 0, 0)

\* self.src[p] if p < len(self.src) else None
CharAt(src, p) == IF p < Len(src) THEN src[p + 1] ELSE None

\* Lexer.__init__
Lexer(src) ==
    [src |-> src, pos |-> 0, line |-> 1, column |-> 1, current_char |-> CharAt(src, 0)]

\* Lexer.advance
advance(l) ==
    [l EXCEPT !.line = IF l.current_char = NL THEN @ + 1 ELSE @,
              !.column = IF l.current_char = NL THEN 1 ELSE @ + 1,
              !.pos = @ + 1,
              !.current_char = CharAt(l.src, l.pos + 1)]

\* while self.current_char is not None and self.current_char in S: advance()
RECURSIVE AdvanceWhile(_, _)
AdvanceWhile(l, S) ==
    IF l.current_char \in S THEN AdvanceWhile(advance(l), S) ELSE l

\* skip_whitespace
skip_whitespace(l) == AdvanceWhile(l, Spaces)

\* src[pos + 1] exists and is c
NextIs(l, c) == l.pos + 1 < Len(l.src) /\ l.src[l.pos + 2] = c

\* the loop that looks for the end of a block comment
RECURSIVE SkipBlockComment(_)
SkipBlockComment(l) ==
    IF l.current_char = None THEN l
    ELSE IF l.current_char = "*" /\ NextIs(l, "/") THEN advance(advance(l))
    ELSE SkipBlockComment(advance(l))

\* int(result) of a run of digits
RECURSIVE IntOfDigits(_)
IntOfDigits(ds) ==
    IF ds = <<>> THEN 0
    ELSE 2 * 5 * IntOfDigits(SubSeq(ds, 1, Len(ds) - 1))
            + (IF ds[Len(ds)] = "1" THEN 1 ELSE 0)

\* src[a:b]
Slice(src, a, b) == SubSeq(src, a + 1, b)

\* what a call gives: the lexer as the call left it, the token returned, and
\* the LexerError raised ("" when it returned)
Returns(l, tok) == [lexer |-> l, tok |-> tok, err |-> ""]
Raises(l, e)    == [lexer |-> l, tok |-> NoToken, err |-> e]

\* Lexer.number
number(l) ==
    LET e == AdvanceWhile(l, Digits)
    IN Returns(e, Token("NUMBER", IntOfDigits(Slice(l.src, l.pos, e.pos)), l.line, l.column))

\* the string branch of get_next_token: the literal ends at the next `"`
StringToken(l) ==
    LET s == advance(l)
        e == AdvanceWhile(s, AllChars \ {"\""})
    IN IF e.current_char = "\""
       THEN Returns(advance(e),
                    Token("STRING", Slice(l.src, s.pos, e.pos), l.line, l.column))
       ELSE Raises(e, "UnterminatedString")

\* the word branch of get_next_token
WordToken(l) ==
    LET e == AdvanceWhile(l, WordChars)
        word == Slice(l.src, l.pos, e.pos)
    IN Returns(e, Token(IF word \in keywords THEN "KEYWORD" ELSE "IDENTIFIER",
                        word, l.line, l.column))

\* an end of input that is consumed like a character
EOFTokenAdvancing(l) == Returns(advance(l), Token("EOF", None, l.line, l.column))

\* return Token(TokenType.EOF, None, self.line, self.column)
EOFToken(l) == Returns(l, Token("EOF", None, l.line, l.column))

\* the iterations of get_next_token's loop that end in `continue`: white
\* space, a line comment, a block comment
Continues(l) ==
    \/ l.current_char \in Spaces
    \/ l.current_char = "/" /\ (NextIs(l, "/") \/ NextIs(l, "*"))

\* the lexer after one such iteration
SkipIteration(l) ==
    IF l.current_char \in Spaces THEN skip_whitespace(l)
    ELSE IF NextIs(l, "/") THEN AdvanceWhile(advance(advance(l)), AllChars \ {NL})
    ELSE SkipBlockComment(advance(advance(l)))

\* a one-character token returned without being consumed
OperatorTokenNoAdvance(l) ==
    Returns(l, Token(token_map[l.current_char], l.current_char, l.line, l.column))

\* the token_map branch of get_next_token
OperatorToken(l) ==
    Returns(advance(l), Token(token_map[l.current_char], l.current_char, l.line, l.column))

\* Lexer.get_next_token
RECURSIVE get_next_token(_)
get_next_token(l) ==
    LET c == l.current_char IN
    IF c = None THEN EOFToken(l)
    ELSE IF Continues(l) THEN get_next_token(SkipIteration(l))
    ELSE IF c \in Digits THEN number(l)
    ELSE IF c \in DOMAIN token_map THEN OperatorToken(l)
    ELSE IF c = "\"" THEN StringToken(l)
    ELSE IF c \in Letters THEN WordToken(l)
    ELSE Raises(l, "UnknownCharacter")

\* what lex() has handed to its caller: nothing yet, None, or a list
Pending        == [kind |-> "pending", value |-> <<>>]
ReturnedNone   == [kind |-> "None", value |-> <<>>]
Returned(toks) == [kind |-> "list", value |-> toks]

\* Lexer.lex, one iteration of `while True` whose get_next_token() returns:
\* the token is appended, and EOF breaks the loop and returns the list
LexIter ==
    /\ phase = "lex"
    /\ LET r == get_next_token(lx) IN
         /\ r.err = ""
         /\ lx' = r.lexer
         /\ last' = r.tok
         /\ tokens' = Append(tokens, r.tok)
         /\ IF r.tok.type = "EOF"
            THEN phase' = "lexed" /\ result' = Returned(tokens')
            ELSE UNCHANGED <<phase, result>>
    /\ UNCHANGED <<printed, calls, interp, profile, err, pvars, cvars, rvars>>

\* Lexer.lex, `except LexerError as e: print(e)`: the function falls off its
\* end, so the caller receives None and no exception
LexCatch ==
    /\ phase = "lex"
    /\ LET r == get_next_token(lx) IN
         /\ r.err # ""
         /\ lx' = r.lexer
         /\ printed' = r.err
    /\ phase' = "lexed"
    /\ result' = ReturnedNone
    /\ UNCHANGED <<tokens, last, calls, interp, profile, err, pvars, cvars, rvars>>

\* a caller's own get_next_token() on the lexer lex() has finished with
CallGetNextToken ==
    /\ phase = "lexed"
    /\ calls < MaxCalls
    /\ calls' = calls + 1
    /\ LET r == get_next_token(lx) IN
         /\ lx' = r.lexer
         /\ last' = r.tok
         /\ err' = r.err
    /\ UNCHANGED <<tokens, result, printed, interp, profile, phase, pvars, cvars, rvars>>

\* the source texts of a lexer profile
LexProfiles == {"lex-strings", "lex-comments", "lex-words"}

LexAlphabet(p) ==
    IF p = "lex-strings" THEN {"a", "1", " ", "\"", "\\", "#"}
    ELSE IF p = "lex-comments" THEN {"a", "1", " ", NL, "+", "/", "*"}
    ELSE IF p = "lex-words" THEN {"d", "o", "-", "!", " ", NL}
    ELSE {"a", "1", "\"", "/", "*", NL}

\* the progress alphabet has a character for every branch of get_next_token,
\* and its texts are one character shorter
Sources(p) ==
    UNION {[1..n -> LexAlphabet(p)] :
              n \in 0..(IF p = "lex-progress" THEN MaxSrc - 1 ELSE MaxSrc)}

----------------------------------------------------------------------------
(* The toy interpreter of src/sweet.py.  Its source text is a sequence of   *)
(* words separated by single spaces; its lexer's pos counts the words read. *)

\* keywords (sweet.py)
toy_keywords == {"if", "else", "end", "dup"}

\* Token(type_, value) (sweet.py)
ToyToken(type_, value) == [type |-> type_, value |-> value]

\* Lexer.get_next_token (sweet.py): the token the i-th word is read as.  An
\* operator token is built after advance(), so its value is the character
\* that follows the operator
ToyWordToken(prog, i) ==
    LET w == prog[i] IN
    IF IsIntText(w) THEN ToyToken("NUMBER", IntOf(w))
    ELSE IF w \in DOMAIN token_map
    THEN ToyToken(token_map[w], IF i < Len(prog) THEN " " ELSE None)
    ELSE IF w \in toy_keywords THEN ToyToken("KEYWORD", w)
    ELSE ToyToken("Exception", w)

\* Lexer.get_next_token (sweet.py): the token returned, and the interpreter
\* with its lexer moved past it
ToyPeek(it) ==
    IF it.pos < Len(it.prog) THEN ToyWordToken(it.prog, it.pos + 1)
    ELSE ToyToken("EOF", None)

ToyRead(it) ==
    IF it.pos < Len(it.prog) /\ ToyPeek(it).type # "Exception"
    THEN [it EXCEPT !.pos = @ + 1] ELSE it

\* Interpreter.error
ToyError(it, msg) == [it EXCEPT !.error = msg]

\* self.current_token = self.lexer.get_next_token()
ToyFetch(it) ==
    IF ToyPeek(it).type = "Exception" THEN ToyError(it, "UnknownKeyword")
    ELSE [ToyRead(it) EXCEPT !.current_token = ToyPeek(it)]

\* Interpreter.__init__
Interpreter(prog) ==
    ToyFetch([prog |-> prog, pos |-> 0, current_token |-> ToyToken("", None),
              stack |-> <<>>, error |-> ""])

\* Interpreter.eat, called with the type of current_token
eat(it) == ToyFetch(it)

\* Interpreter.apply_operator
apply_operator(it, symbol) ==
    IF Len(it.stack) < 2 THEN ToyError(it, "NotEnoughValues")
    ELSE LET b == it.stack[Len(it.stack)]
             a == it.stack[Len(it.stack) - 1]
             r == CASE symbol = "+" -> a + b
                    [] symbol = "-" -> a - b
                    [] symbol = "*" -> a * b
                    [] symbol = "?" -> IF a = b THEN 1 ELSE 0
         IN [it EXCEPT !.stack = Append(Pop2(it.stack), r)]

\* Interpreter.skip_to_else_or_end, from `while depth > 0` on
RECURSIVE SkipToElseOrEnd(_, _)
SkipToElseOrEnd(it, depth) ==
    IF depth = 0 THEN ToyFetch(it)
    ELSE LET token == ToyPeek(it)
             it2 == ToyRead(it)
         IN IF token.type = "Exception" THEN ToyError(it, "UnknownKeyword")
            ELSE IF token.type = "KEYWORD"
            THEN IF token.value = "if" THEN SkipToElseOrEnd(it2, depth + 1)
                 ELSE IF token.value = "end" THEN SkipToElseOrEnd(it2, depth - 1)
                 ELSE IF token.value = "else" /\ depth = 1 THEN ToyFetch(it2)
                 ELSE SkipToElseOrEnd(it2, depth)
            ELSE IF token.type = "EOF" THEN ToyError(it2, "UnmatchedIf")
            ELSE SkipToElseOrEnd(it2, depth)

skip_to_else_or_end(it) == SkipToElseOrEnd(it, 1)

\* Interpreter.skip_to_end, from `while depth > 0` on
RECURSIVE SkipToEnd(_, _)
SkipToEnd(it, depth) ==
    IF depth = 0 THEN ToyFetch(it)
    ELSE LET token == ToyPeek(it)
             it2 == ToyRead(it)
         IN IF token.type = "Exception" THEN ToyError(it, "UnknownKeyword")
            ELSE IF token.type = "KEYWORD"
            THEN IF token.value = "if" THEN SkipToEnd(it2, depth + 1)
                 ELSE IF token.value = "end" THEN SkipToEnd(it2, depth - 1)
                 ELSE SkipToEnd(it2, depth)
            ELSE IF token.type = "EOF" THEN ToyError(it2, "UnmatchedElse")
            ELSE SkipToEnd(it2, depth)

skip_to_end(it) == SkipToEnd(it, 1)

\* an exception raised inside a call ends it: the rest is not executed
Then(it, F(_)) == IF it.error # "" THEN it ELSE F(it)

\* the `if` branch of process_token, after eat
ToyIf(it) ==
    LET condition == IF it.stack # <<>> THEN it.stack[Len(it.stack)] ELSE 0
        it2 == IF it.stack # <<>> THEN [it EXCEPT !.stack = Pop1(@)] ELSE it
    IN IF condition = 0 THEN skip_to_else_or_end(it2) ELSE it2

\* a `dup` that pushes 0 onto an empty stack instead of failing
ToyDupUnchecked(it) ==
    [it EXCEPT !.stack = Append(@, IF it.stack = <<>> THEN 0 ELSE it.stack[Len(it.stack)])]

\* the `dup` branch of process_token, after eat
ToyDup(it) ==
    IF it.stack = <<>> THEN ToyError(it, "StackEmpty")
    ELSE [it EXCEPT !.stack = Append(@, it.stack[Len(it.stack)])]

\* Interpreter.process_token(self.current_token); `/` is left out, its
\* quotient being a float
process_token(it) ==
    LET token == it.current_token IN
    CASE token.type = "NUMBER" ->
           eat([it EXCEPT !.stack = Append(@, token.value)])
      [] token.type = "PLUS" -> Then(eat(it), LAMBDA x : apply_operator(x, "+"))
      [] token.type = "MINUS" -> Then(eat(it), LAMBDA x : apply_operator(x, "-"))
      [] token.type = "MULTIPLY" -> Then(eat(it), LAMBDA x : apply_operator(x, "*"))
      [] token.type = "COMPARE" -> Then(eat(it), LAMBDA x : apply_operator(x, "?"))
      [] token.type = "KEYWORD" /\ token.value = "if" -> Then(eat(it), ToyIf)
      [] token.type = "KEYWORD" /\ token.value = "else" -> Then(eat(it), skip_to_end)
      [] token.type = "KEYWORD" /\ token.value = "end" -> eat(it)
      [] token.type = "KEYWORD" /\ token.value = "dup" -> Then(eat(it), ToyDup)
      [] OTHER -> ToyError(it, "UnexpectedToken")

\* Interpreter.interpret: one iteration of its loop
InterpStep ==
    /\ phase = "interp"
    /\ interp.error = "" /\ interp.current_token.type # "EOF"
    /\ interp' = process_token(interp)
    /\ UNCHANGED <<lvars, profile, phase, err, pvars, cvars, rvars>>

\* Interpreter.interpret returns self.stack, or an exception has left it
InterpEnd ==
    /\ phase = "interp"
    /\ interp.error # "" \/ interp.current_token.type = "EOF"
    /\ phase' = "interpreted"
    /\ UNCHANGED <<interp, lvars, profile, err, pvars, cvars, rvars>>

\* the words of the texts given to the interpreter
ToyAlphabet(p) ==
    IF p = "ref" THEN {"1", "2", "dup", "+", "-", "*"}
    ELSE {"0", "1", "if", "else", "end"}

Programs(p) ==
    UNION {[1..n -> ToyAlphabet(p)] : n \in 0..(IF p = "ref" THEN MaxWords ELSE MaxNest)}

----------------------------------------------------------------------------
(* The compilation of one source text, then one run of what it emitted *)

\* the parser's tokens are drawn per profile, so no Lexer.lex() call is running
LexerIdle ==
    /\ lx = Lexer(<<>>)
    /\ tokens = <<>>
    /\ result = Pending
    /\ printed = ""
    /\ last = NoToken
    /\ calls = 0
    /\ interp = Interpreter(<<>>)
    /\ text = <<>>

Init ==
    /\ profile \in Profiles
    /\ phase = "parse"
    /\ err = ""
    /\ cur \in Alphabet(profile) \cup {EOFTok}
    /\ ntok = 1
    /\ frames = <<Frame("top", {}, NoNode, <<>>)>>
    /\ known_externs = <<>>
    /\ known_vars = <<>>
    /\ declared = <<>>
    /\ ast = <<>>
    /\ ci = 1
    /\ ctx = FreshCtx
    /\ code = <<>>
    /\ starts = <<>>
    /\ pc = 1
    /\ rstack = <<>>
    /\ regs = InitRegs
    /\ zf = FALSE
    /\ mem = <<>>
    /\ steps = 0
    /\ npush = 0
    /\ underflow = FALSE
    /\ LexerIdle

Next ==
    \/ ParseStep
    \/ CompileNode
    \/ CompileDone
    \/ RunStep
    \/ RunEnd

Spec == Init /\ [][Next]_vars

----------------------------------------------------------------------------
(* Calls of every arity: the programs `extern f n  v1 ... vk  f`, each vi  *)
(* a number or a string literal, taken from where the parser leaves them   *)

\* most literals before the call, and the largest declared arity
MaxArgs == 7

Literals == {Number("1"), String("a")}

CallProgram(lits, n) == <<Extern("f")>> \o lits \o <<Call("f", n)>>

InitCall ==
    /\ profile = "call"
    /\ phase = "compile"
    /\ err = ""
    /\ cur = EOFTok
    /\ \E k \in 0..MaxArgs, n \in 0..MaxArgs :
         \E lits \in [1..k -> Literals] :
            /\ ast = CallProgram(lits, n)
            /\ ntok = k + 5
            /\ frames = <<[Frame("top", {}, NoNode, <<>>) EXCEPT
                              !.block_stack = CallProgram(lits, n)]>>
            /\ known_externs = RegisterExtern(<<>>, "f", n)
            /\ declared = <<Decl("extern", "f", n)>>
    /\ known_vars = <<>>
    /\ ci = 1
    /\ ctx = FreshCtx
    /\ code = <<>>
    /\ starts = <<>>
    /\ pc = 1
    /\ rstack = <<>>
    /\ regs = InitRegs
    /\ zf = FALSE
    /\ mem = <<>>
    /\ steps = 0
    /\ npush = 0
    /\ underflow = FALSE
    /\ LexerIdle

NextCall ==
    \/ CompileNode
    \/ CompileDone
    \/ RunStep
    \/ RunEnd

SpecCall == InitCall /\ [][NextCall]_vars

----------------------------------------------------------------------------
(* Lexer.lex() on one source text, then the caller's own get_next_token()  *)
(* calls on the same lexer                                                  *)

InitLexOf(P) ==
    /\ profile \in P
    /\ phase = "lex"
    /\ err = ""
    /\ lx \in {Lexer(src) : src \in Sources(profile)}
    /\ tokens = <<>>
    /\ result = Pending
    /\ printed = ""
    /\ last = NoToken
    /\ calls = 0
    /\ interp = Interpreter(<<>>)
    /\ text = <<>>
    /\ cur = EOFTok
    /\ ntok = 0
    /\ frames = <<Frame("top", {}, NoNode, <<>>)>>
    /\ known_externs = <<>>
    /\ known_vars = <<>>
    /\ declared = <<>>
    /\ ast = <<>>
    /\ ci = 1
    /\ ctx = FreshCtx
    /\ code = <<>>
    /\ starts = <<>>
    /\ pc = 1
    /\ rstack = <<>>
    /\ regs = InitRegs
    /\ zf = FALSE
    /\ mem = <<>>
    /\ steps = 0
    /\ npush = 0
    /\ underflow = FALSE

InitLex == InitLexOf(LexProfiles)

NextLex ==
    \/ LexIter
    \/ LexCatch
    \/ CallGetNextToken

SpecLex == InitLex /\ [][NextLex]_vars

\* lex() alone, as a loop of the running program: its next iteration is
\* always taken
InitLexFair == InitLexOf({"lex-progress"})

NextLexFair ==
    \/ LexIter
    \/ LexCatch

SpecLexFair ==
    InitLexFair /\ [][NextLexFair]_vars /\ WF_vars(LexIter) /\ WF_vars(LexCatch)

----------------------------------------------------------------------------
(* The toy interpreter on one text; under profile "ref" the same text is   *)
(* then parsed and compiled                                                 *)

InitToy(p) ==
    /\ profile = p
    /\ phase = "interp"
    /\ err = ""
    /\ interp \in {Interpreter(prog) : prog \in Programs(p)}
    /\ text = IF p = "ref" THEN interp.prog ELSE <<>>
    /\ cur = IF p = "ref" THEN TextToken(text, 1) ELSE EOFTok
    /\ ntok = 1
    /\ frames = <<Frame("top", {}, NoNode, <<>>)>>
    /\ known_externs = <<>>
    /\ known_vars = <<>>
    /\ declared = <<>>
    /\ ast = <<>>
    /\ ci = 1
    /\ ctx = FreshCtx
    /\ code = <<>>
    /\ starts = <<>>
    /\ pc = 1
    /\ rstack = <<>>
    /\ regs = InitRegs
    /\ zf = FALSE
    /\ mem = <<>>
    /\ steps = 0
    /\ npush = 0
    /\ underflow = FALSE
    /\ lx = Lexer(<<>>)
    /\ tokens = <<>>
    /\ result = Pending
    /\ printed = ""
    /\ last = NoToken
    /\ calls = 0

\* the text the interpreter was given goes to Parser.parse()
CompileSame ==
    /\ profile = "ref" /\ phase = "interpreted"
    /\ phase' = "parse"
    /\ UNCHANGED <<interp, lvars, profile, err, pvars, cvars, rvars>>

InitRef == InitToy("ref")

NextRef ==
    \/ InterpStep
    \/ InterpEnd
    \/ CompileSame
    \/ ParseIntlit
    \/ ParseBinary
    \/ ParseSimpleKeyword
    \/ ParseDone
    \/ CompileNode
    \/ CompileDone

SpecRef == InitRef /\ [][NextRef]_vars

InitNest == InitToy("nest")

NextNest ==
    \/ InterpStep
    \/ InterpEnd

SpecNest == InitNest /\ [][NextNest]_vars


----------------------------------------------------------------------------
(* Declarations under control flow: a family of fixed texts in which `var` *)
(* stands at the top level, inside an if or else branch, or inside a loop  *)
(* body, and the variable is read or written afterwards.  Every text       *)
(* declares its variable textually before the use.                         *)

DeclTexts ==
    UNION {{ <<c, "if", "var", "f", "var", "uint", "end", "f">>,
             <<c, "if", "else", "var", "f", "var", "uint", "end", "f">>,
             <<c, "if", "var", "f", "var", "uint", "end", "1", "set", "f">>,
             <<"loop", c, "do", "var", "f", "var", "uint", "end", "f">>,
             <<"var", "f", "var", "uint", c, "if", "f", "end">>,
             <<"var", "f", "var", "uint", c, "set", "f", "f">> } : c \in {"0", "1"}}

InitDecl ==
    /\ profile = "decl"
    /\ phase = "parse"
    /\ err = ""
    /\ interp = Interpreter(<<>>)
    /\ text \in DeclTexts
    /\ cur = TextToken(text, 1)
    /\ ntok = 1
    /\ frames = <<Frame("top", {}, NoNode, <<>>)>>
    /\ known_externs = <<>>
    /\ known_vars = <<>>
    /\ declared = <<>>
    /\ ast = <<>>
    /\ ci = 1
    /\ ctx = FreshCtx
    /\ code = <<>>
    /\ starts = <<>>
    /\ pc = 1
    /\ rstack = <<>>
    /\ regs = InitRegs
    /\ zf = FALSE
    /\ mem = <<>>
    /\ steps = 0
    /\ npush = 0
    /\ underflow = FALSE
    /\ lx = Lexer(<<>>)
    /\ tokens = <<>>
    /\ result = Pending
    /\ printed = ""
    /\ last = NoToken
    /\ calls = 0

NextDecl ==
    \/ ParseIntlit
    \/ ParseIf
    \/ ReturnIfBody
    \/ ReturnElseBody
    \/ ParseLoop
    \/ ReturnLoopCond
    \/ ReturnLoopBody
    \/ ParseVar
    \/ ParseSet
    \/ ParseIdentifier
    \/ ParseDone
    \/ CompileNode
    \/ CompileDone
    \/ RunStep
    \/ RunEnd

SpecDecl == InitDecl /\ [][NextDecl]_vars


----------------------------------------------------------------------------
(* Claims *)

\* the compilation got through code generation
Compiled == phase \in {"run", "done", "fault"}

\* C1: after every top-level node's compile() has returned, starting from a
\* fresh context, len(ctx.stack_types) equals ctx.stack_depth.
\* IfElse.compile lowers stack_depth for its condition and leaves stack_types
\* alone, so the claim fails on `1 if end`.
C1_TypesMatchDepth ==
    (phase = "compile" \/ Compiled) => Len(ctx.stack_types) = ctx.stack_depth

\* C2: when a run of the emitted program reaches the end of the program, the
\* number of values on its stack is the symbolic depth the compiler recorded.
\* Both bodies of an IfElse are counted by the compiler, one runs: fails on
\* `0 if 1 end`.
C2_RuntimeDepthIsSymbolicDepth ==
    phase = "done" => Len(rstack) = ctx.stack_depth

\* C3: a program that compiled never pops a value it did not push.
\* Dup tests len(stack_types), which IfElse left too long: `1 if end dup`
\* compiles and its `pop rax` finds the stack empty.
C3_NoPopOfUnpushedValue ==
    Compiled => ~underflow

IsArith(ins) == ins.op \in {"add", "sub", "imul", "idiv"}

\* C4: the arithmetic instruction BinaryOp emits never consumes a value that a
\* string or Char construct produced.
\* `"a" 1 if 1 end +` compiles: the types BinaryOp pops are the condition's
\* stale UInt and the body's UInt, the values popped are 1 and the string.
C4_ArithmeticOnNumbersOnly ==
    (phase = "run" /\ pc <= Len(code) /\ IsArith(code[pc])) =>
        /\ regs["rax"].t \notin {InlineString, Char}
        /\ regs["rbx"].t \notin {InlineString, Char}

\* the emitted lines that carry a label obtained from ctx.new_label(): the
\* definitions `Ln:` of IfElse and Loop, and the store `mov [Ln], rax` that
\* ArrayDef emits after `call new; pop rbp`
LabelDefs == {i \in 1..Len(code) : code[i].op = "label"}
DataLabelStores ==
    {i \in 2..Len(code) : code[i].op = "mov_store" /\ code[i - 1] = PopR("rbp")}
ObtainedLabels == LabelDefs \cup DataLabelStores

\* C5: between top-level nodes and after code generation, the labels obtained
\* by IfElse, Loop and ArrayDef are pairwise distinct, each came from the
\* counter (is below it), and there are as many of them as the counter has
\* handed out; so no label is defined twice in the emitted lines.
C5_LabelsDistinct ==
    (phase = "compile" \/ Compiled) =>
        /\ \A i, j \in ObtainedLabels : i # j => code[i].n # code[j].n
        /\ \A i \in ObtainedLabels : code[i].n \in 0..(ctx.label_counter - 1)
        /\ Cardinality(ObtainedLabels) = ctx.label_counter
        /\ \A name \in DOMAIN ctx.vars :
             \E i \in DataLabelStores : code[i].n = ctx.vars[name].label

\* a compiled program with a variable's data label and the two labels of an if
C5_Witness ==
    /\ Compiled
    /\ DataLabelStores # {}
    /\ Cardinality(LabelDefs) >= 2
    /\ \E i \in LabelDefs : \E j \in DataLabelStores : j < i

\* how many nodes of one kind an AST holds
RECURSIVE CountKind(_, _)
RECURSIVE CountKindSeq(_, _)
CountKind(node, kind) ==
    (IF node.kind = kind THEN 1 ELSE 0) +
    (CASE node.kind \in {"BinaryOp", "Compare"} ->
              CountKind(node.left, kind) + CountKind(node.right, kind)
       [] node.kind = "IfElse" ->
              CountKind(node.condition, kind) + CountKindSeq(node.if_body, kind)
                  + CountKindSeq(node.else_body, kind)
       [] node.kind = "BangWrapper" -> CountKind(node.node, kind)
       [] node.kind = "Loop" ->
              CountKind(node.condition, kind) + CountKindSeq(node.body, kind)
       [] node.kind = "BlockExpr" -> CountKindSeq(node.expressions, kind)
       [] OTHER -> 0)
CountKindSeq(nodes, kind) ==
    IF nodes = <<>> THEN 0
    ELSE CountKind(Head(nodes), kind) + CountKindSeq(Tail(nodes), kind)

\* the line a `je`/`jmp` at line i goes to
Target(i) == LabelIndex(code, code[i].n)

\* the last line emitted for top-level node k
SegEnd(k) == IF k < Len(starts) THEN starts[k + 1] - 1 ELSE Len(code)

\* the `je` of an IfElse: it goes forward to a label that follows a `jmp`
\* which goes further forward (to end_label)
IfSites ==
    {i \in 1..Len(code) :
        /\ code[i].op = "je"
        /\ Target(i) \in (i + 1)..Len(code)
        /\ code[Target(i) - 1].op = "jmp"
        /\ Target(Target(i) - 1) \in (Target(i) + 1)..Len(code)}
ElseAt(i) == Target(i)
EndAt(i)  == Target(Target(i) - 1)
ThenLines(i) == (i + 1)..(ElseAt(i) - 1)
ElseLines(i) == ElseAt(i)..(EndAt(i) - 1)

\* the `je` of a Loop: it goes forward to a label that follows a `jmp` which
\* goes back (to loop_label)
LoopSites ==
    {i \in 1..Len(code) :
        /\ code[i].op = "je"
        /\ Target(i) \in (i + 1)..Len(code)
        /\ code[Target(i) - 1].op = "jmp"
        /\ Target(Target(i) - 1) \in 1..(i - 1)}
LoopEndAt(i) == Target(i)
LoopAt(i)    == Target(Target(i) - 1)
BodyLines(i) == (i + 1)..(LoopEndAt(i) - 1)

\* a step in which the driver compiled top-level node ast[ci] and it returned
CompiledNode(kind) ==
    /\ phase = "compile" /\ ci <= Len(ast) /\ ast[ci].kind = kind
    /\ phase' = "compile" /\ ci' = ci + 1

\* C6: a Loop whose compile() succeeds leaves the symbolic stack (depth and
\* types) as it found it.
\* Loop.compile checks neither the condition's nor the body's net effect:
\* fails on `loop 0 do 0 end`.
C6_LoopLeavesStackUnchanged ==
    [][CompiledNode("Loop") =>
          /\ ctx'.stack_depth = ctx.stack_depth
          /\ ctx'.stack_types = ctx.stack_types]_vars

\* the two labels a branch site uses: the one its `je` names and the one the
\* `jmp` before that label names
SiteLabels(i) == {code[i].n, code[Target(i) - 1].n}

\* the emitted text of every IfElse: one `je` per IfElse node, preceded by
\* `pop rax; cmp rax, 0`, with two labels of its own; for a top-level IfElse
\* the lines between `je` and `jmp` are the then-body's and the lines between
\* the two labels are the else-body's
C7_Text ==
    Compiled =>
        /\ Cardinality(IfSites) = CountKindSeq(ast, "IfElse")
        /\ \A i \in 1..Len(code) : code[i].op = "je" => i \in IfSites \cup LoopSites
        /\ \A i \in IfSites :
             /\ i > 2 /\ code[i - 2] = PopR("rax") /\ code[i - 1] = Cmp0
             /\ code[ElseAt(i)] = LabelDef(code[i].n)
             /\ code[EndAt(i)] = LabelDef(code[ElseAt(i) - 1].n)
             /\ Cardinality(SiteLabels(i)) = 2
             /\ \A j \in (IfSites \cup LoopSites) \ {i} :
                  SiteLabels(i) \cap SiteLabels(j) = {}
        /\ \A k \in 1..Len(ast) :
             ast[k].kind = "IfElse" =>
                \E i \in IfSites :
                   /\ i >= starts[k] /\ EndAt(i) = SegEnd(k)
                   /\ (ElseAt(i) - 1 = i + 1) <=> (ast[k].if_body = <<>>)
                   /\ (EndAt(i) = ElseAt(i) + 1) <=> (ast[k].else_body = <<>>)

\* one step of the run, seen from the IfElse whose `je` is line i
C7_Step(i) ==
    /\ (pc = i - 2 /\ rstack # <<>>) =>
          regs'["rax"] = Last(rstack) /\ rstack' = Pop1(rstack)
    /\ (pc = i - 1 /\ IsNum(regs["rax"])) => zf' = (regs["rax"].v = 0)
    /\ pc = i => pc' = (IF zf THEN ElseAt(i) ELSE i + 1) /\ rstack' = rstack
    /\ pc = ElseAt(i) - 1 => pc' = EndAt(i)
    /\ pc' \in ThenLines(i) => (pc \in ThenLines(i) \/ (pc = i /\ ~zf))
    /\ pc' \in ElseLines(i) => (pc \in ElseLines(i) \/ (pc = i /\ zf))
    /\ (pc \in ThenLines(i) \cup ElseLines(i)
          /\ pc' \notin ThenLines(i) \cup ElseLines(i)) => pc' = EndAt(i)

\* C7: the code of an IfElse pops the condition; when it is non-zero control
\* falls into the then-body, whose last line jumps to end_label; when it is
\* zero control goes to else_label, from where the else-body (or nothing) runs
\* into end_label.  Neither body is entered any other way, both are left only
\* to end_label, and each IfElse has two labels no other construct uses.
C7_IfElseRunsOneBody ==
    /\ []C7_Text
    /\ [][(phase = "run" /\ pc <= Len(code)) => \A i \in IfSites : C7_Step(i)]_vars

\* a run inside the else-body of an if that has both bodies
C7_Witness ==
    /\ phase = "run"
    /\ \E i \in IfSites :
         /\ pc \in (ElseAt(i) + 1)..(EndAt(i) - 1)
         /\ ElseAt(i) - 1 > i + 1
         /\ steps > 0

CondLines(i) == LoopAt(i)..(i - 1)

\* the emitted text of every Loop: one `je` per Loop node, preceded by
\* `pop rax; cmp rax, 0`; loop_label stands before at least one line of
\* condition code, and the line before end_label jumps back to loop_label
C8_Text ==
    Compiled =>
        /\ Cardinality(LoopSites) = CountKindSeq(ast, "Loop")
        /\ \A i \in LoopSites :
             /\ code[i - 2] = PopR("rax") /\ code[i - 1] = Cmp0
             /\ LoopAt(i) < i - 2
             /\ code[LoopAt(i)] = LabelDef(code[LoopEndAt(i) - 1].n)
             /\ code[LoopEndAt(i)] = LabelDef(code[i].n)
        /\ \A k \in 1..Len(ast) :
             ast[k].kind = "Loop" =>
                \E i \in LoopSites : LoopAt(i) = starts[k] /\ LoopEndAt(i) = SegEnd(k)

\* the step in which a top-level Loop is compiled: its lines are loop_label,
\* the condition's code (once), the pop and branch, the body, the jump back
C8_Emit ==
    CompiledNode("Loop") =>
        LET first == Len(code) + 1
            cond  == Compile(ast[ci].condition, LoopLabels(ctx).ctx)
            i     == first + Len(cond.code) + 3
        IN /\ code'[first].op = "label"
           /\ SubSeq(code', first + 1, i - 3) = cond.code
           /\ SubSeq(code', i - 2, i) = <<PopR("rax"), Cmp0, Je(code'[Len(code')].n)>>
           /\ code'[Len(code') - 1] = Jmp(code'[first].n)
           /\ code'[Len(code')].op = "label"
           /\ \A j \in first..Len(code') : code'[j].op = "je" /\ code'[j].n = code'[i].n => j = i

\* one step of the run, seen from the Loop whose `je` is line i
C8_Step(i) ==
    /\ (pc = i - 2 /\ rstack # <<>>) =>
          regs'["rax"] = Last(rstack) /\ rstack' = Pop1(rstack)
    /\ (pc = i - 1 /\ IsNum(regs["rax"])) => zf' = (regs["rax"].v = 0)
    /\ pc = i => pc' = (IF zf THEN LoopEndAt(i) ELSE i + 1)
    /\ pc = LoopEndAt(i) - 1 => pc' = LoopAt(i)
    /\ pc' \in BodyLines(i) => (pc \in BodyLines(i) \/ (pc = i /\ ~zf))
    /\ pc' = LoopEndAt(i) => (pc = i /\ zf)
    /\ (pc \in BodyLines(i) /\ pc' \notin BodyLines(i)) => pc' = LoopAt(i)
    /\ (pc \in CondLines(i) /\ pc' \notin CondLines(i)) => pc' = i

\* C8: the jump that ends a Loop's body goes to loop_label, which stands before
\* the condition's code, so every iteration runs the condition again; the body
\* is entered only from the branch, with a non-zero condition, and end_label
\* is reached only from the branch, with a zero condition.  The condition's
\* code is emitted once per Loop.
C8_LoopReevaluatesCondition ==
    /\ []C8_Text
    /\ [][/\ C8_Emit
          /\ (phase = "run" /\ pc <= Len(code)) => \A i \in LoopSites : C8_Step(i)]_vars

\* a run that leaves its only loop after going round it at least once
C8_Witness ==
    /\ phase = "run"
    /\ Cardinality(LoopSites) = 1
    /\ \E i \in LoopSites : pc = LoopEndAt(i) /\ steps > LoopEndAt(i)

\* the declarations of the text read so far that register a name
DeclsOf(name) == {i \in 1..Len(declared) : declared[i].name = name}
ExternDeclsOf(name) == {i \in DeclsOf(name) : declared[i].kind = "extern"}
MostRecent(S) == CHOOSE i \in S : \A j \in S : j <= i

\* parse_block meets an IDENTIFIER as the next statement
IdentifierUse == Iter /\ cur.type = "IDENTIFIER"

\* C9: when parse_block meets an IDENTIFIER as a statement, a name that no
\* earlier `extern` or `var` declaration of the text registered ends the
\* parse with a ParserError, and a name that an earlier `extern NAME n`
\* registered is pushed as Call(NAME, n), n being the arity of the most recent
\* such declaration.
C9_ForwardRegistration ==
    [][IdentifierUse =>
          /\ DeclsOf(cur.value) = {} =>
                /\ phase' = "error" /\ err' = ParserError
                /\ frames' = frames
          /\ ExternDeclsOf(cur.value) # {} =>
                /\ phase' = "parse"
                /\ frames' = WithStack(Append(Top.block_stack,
                      Call(cur.value, declared[MostRecent(ExternDeclsOf(cur.value))].n)))]_vars

\* a call parsed after its name was declared twice, with different arities
C9_Witness ==
    /\ phase = "parse"
    /\ Top.block_stack # <<>>
    /\ Last(Top.block_stack).kind = "Call"
    /\ \E i, j \in ExternDeclsOf(Last(Top.block_stack).func) :
          /\ i < j /\ declared[i].n # declared[j].n
          /\ j = MostRecent(ExternDeclsOf(Last(Top.block_stack).func))
          /\ Last(Top.block_stack).arg_count = declared[j].n

\* the lines the step added to the emitted text
NewLines == SubSeq(code', Len(code) + 1, Len(code'))
CountOp(lines, op) == Cardinality({j \in 1..Len(lines) : lines[j].op = op})

\* the step in which a Call node is compiled
C10_Compile ==
    (phase = "compile" /\ ci <= Len(ast) /\ ast[ci].kind = "Call") =>
        LET n == ast[ci].arg_count IN
        /\ ctx.stack_depth < n =>
              /\ phase' = "error" /\ err' = StackUnderflow
              /\ code' = code /\ ctx' = ctx
        /\ (ctx.stack_depth >= n /\ n <= 6) =>
              /\ phase' = "compile"
              /\ ctx'.stack_depth = ctx.stack_depth + 1 - n
              /\ ctx'.stack_types =
                    Append(SubSeq(ctx.stack_types, 1, Len(ctx.stack_types) - n), UInt)
              /\ CountOp(NewLines, "pop") = n + 1
              /\ CountOp(NewLines, "push") = 2

\* the symbolic type and the value of what a literal pushes
LiteralType(node) == IF node.kind = "Number" THEN UInt ELSE InlineString

\* the run is at the `call f` of CallProgram: argument i is the i-th of the
\* last n values pushed before the call's own `push rbp`
C10_Registers ==
    (phase = "run" /\ pc <= Len(code) /\ code[pc] = CallF("f")
        /\ ast[Len(ast)].kind = "Call") =>
        LET n == ast[Len(ast)].arg_count
            k == Len(ast) - 2
        IN \A i \in 1..n :
              /\ regs[arg_regs[i]].id = k - n + i
              /\ regs[arg_regs[i]].id = (npush - 1) - n + i
              /\ regs[arg_regs[i]].t = LiteralType(ast[1 + k - n + i])

\* C10: Call(name, n).compile fails with a stack underflow when the symbolic
\* depth is below n; otherwise (n <= 6) it pops n symbolic entries and pushes
\* one UInt, a net depth change of 1 - n, and the pops it emits leave the i-th
\* pushed argument in the i-th of rdi, rsi, rdx, rcx, r8, r9 when `call` runs.
C10_CallMarshalsArguments ==
    /\ []C10_Registers
    /\ [][C10_Compile]_vars

\* a run at the call of a six-argument function, with a value left below
C10_Witness ==
    /\ phase = "run" /\ pc <= Len(code) /\ code[pc] = CallF("f")
    /\ ast[Len(ast)].kind = "Call" /\ ast[Len(ast)].arg_count = 6
    /\ Len(ast) - 2 = 7
    /\ regs["rdi"].t = InlineString /\ regs["r9"].t = UInt

\* the current token is an arithmetic operator or `?`
OperatorTok == cur.type \in {"PLUS", "MINUS", "STAR", "SLASH", "COMPARE"}

\* the step made parse_block call itself: a new activation is innermost
EnteredBlock ==
    /\ phase = "parse" /\ phase' = "parse"
    /\ \/ Len(frames') > Len(frames)
       \/ Len(frames') = Len(frames) /\ frames'[Len(frames')].ret # Top.ret

\* C11: an operator token (+ - * / ?) met while the current block's node
\* stack holds fewer than 2 nodes ends the parse with a ParserError, no AST is
\* produced and no node is pushed; every nested block (if-body, else-body,
\* loop condition, loop body) starts with an empty node stack of its own, so
\* the nodes of the enclosing block do not count.
C11_InsufficientOperands ==
    [][/\ (Iter /\ OperatorTok /\ Len(Top.block_stack) < 2) =>
              /\ phase' = "error" /\ err' = ParserError
              /\ ast' = <<>> /\ frames' = frames
       /\ EnteredBlock => frames'[Len(frames')].block_stack = <<>>]_vars

\* the parse failed on an operator in a nested block whose own stack was short
\* while the enclosing block held two nodes
C11_Witness ==
    /\ phase = "error" /\ err = ParserError
    /\ OperatorTok
    /\ Len(frames) >= 2
    /\ Len(Top.block_stack) < 2
    /\ Len(frames[1].block_stack) >= 2
    /\ ast = <<>>

\* a node built from number literals and arithmetic operators only
RECURSIVE PureArith(_)
PureArith(node) ==
    \/ node.kind = "Number"
    \/ node.kind = "BinaryOp" /\ PureArith(node.left) /\ PureArith(node.right)

\* the value the source expression denotes: left op right
RECURSIVE Eval(_)
Eval(node) ==
    IF node.kind = "Number" THEN IntOf(node.value)
    ELSE LET a == Eval(node.left)
             b == Eval(node.right)
         IN CASE node.op = "+" -> a + b
              [] node.op = "-" -> a - b
              [] node.op = "*" -> a * b
              [] node.op = "/" -> TruncDiv(a, b)

\* the number literals of a node in source order
RECURSIVE Leaves(_)
Leaves(node) ==
    IF node.kind = "Number" THEN <<node.value>>
    ELSE Leaves(node.left) \o Leaves(node.right)

RECURSIVE LeavesSeq(_)
LeavesSeq(nodes) ==
    IF nodes = <<>> THEN <<>> ELSE Leaves(Head(nodes)) \o LeavesSeq(Tail(nodes))

\* the operands of the `push {value}` lines, in emitted order
RECURSIVE PushedLiterals(_)
PushedLiterals(lines) ==
    IF lines = <<>> THEN <<>>
    ELSE (IF Head(lines).op = "push_imm" THEN <<Head(lines).r>> ELSE <<>>)
            \o PushedLiterals(Tail(lines))

PureProgram == ast # <<>> /\ \A k \in 1..Len(ast) : PureArith(ast[k])

\* an operator token with two operands: the top two nodes become one node
\* whose left child was second from top and whose right child was on top
C12_Parse ==
    (Iter /\ OperatorTok /\ Len(Top.block_stack) >= 2) =>
        LET bs  == Top.block_stack
            new == frames'[Len(frames')].block_stack
        IN /\ phase' = "parse" /\ Len(frames') = Len(frames)
           /\ Len(new) = Len(bs) - 1
           /\ SubSeq(new, 1, Len(new) - 1) = SubSeq(bs, 1, Len(bs) - 2)
           /\ Last(new).left = bs[Len(bs) - 1]
           /\ Last(new).right = bs[Len(bs)]
           /\ IF cur.type = "COMPARE" THEN Last(new).kind = "Compare"
              ELSE Last(new).kind = "BinaryOp" /\ Last(new).op = cur.value

\* the emitted text pops the right operand into rbx and the left into rax
\* before every arithmetic instruction; a program of literals and operators
\* pushes its literals in source order and leaves, per top-level expression,
\* the value left op right
C12_Code ==
    /\ Compiled =>
          \A i \in 1..Len(code) :
             code[i].op \in {"add", "sub", "imul", "cqo"} =>
                i > 2 /\ code[i - 2] = PopR("rbx") /\ code[i - 1] = PopR("rax")
    /\ (Compiled /\ PureProgram) => PushedLiterals(code) = LeavesSeq(ast)
    /\ (phase = "done" /\ PureProgram) =>
          /\ ~underflow
          /\ Len(rstack) = Len(ast)
          /\ \A k \in 1..Len(ast) : rstack[k].v = Eval(ast[k]) /\ rstack[k].t = UInt

\* C12: operand order is kept from the token sequence to the result: the
\* parser makes the second-from-top node the left child and the top node the
\* right child, code generation emits left, right, `pop rbx; pop rax`, so
\* `a b -` leaves a - b and `a b /` leaves a / b on the stack.
C12_OperandOrder ==
    /\ []C12_Code
    /\ [][C12_Parse]_vars

\* a finished run of a subtraction or division whose operands differ and whose
\* left operand is itself an operator result
C12_Witness ==
    /\ phase = "done" /\ PureProgram /\ Len(ast) = 1
    /\ ast[1].kind = "BinaryOp" /\ ast[1].op \in {"-", "/"}
    /\ ast[1].left.kind = "BinaryOp"
    /\ Eval(ast[1].left) # Eval(ast[1].right)
    /\ rstack[1].v = Eval(ast[1])

\* current_token is EOF or a keyword of the innermost block's until_keywords
StopToken ==
    \/ cur.type = "EOF"
    \/ cur.type = "KEYWORD" /\ cur.value \in Top.until

\* the step in which the innermost parse_block returned and its caller went on
\* (the outermost one returns the AST to parse())
ReturnedBlock ==
    /\ phase = "parse" /\ phase' # "error"
    /\ \/ phase' = "compile"
       \/ Len(frames') < Len(frames)
       \/ Len(frames') = Len(frames) /\ frames'[Len(frames')].ret # Top.ret

\* C13: when parse_block returns, current_token is EOF or a keyword of its
\* until_keywords, and parse_block has not eaten it: the outermost call hands
\* the AST over with the token still current, a nested call's caller is the
\* one that eats it (`else`, `end` or `do`, one token).  The token stream is
\* only read forward: every parse step that goes on has eaten at least one
\* token.
C13_StopTokenLeftToCaller ==
    [][/\ ReturnedBlock =>
             /\ StopToken
             /\ phase' = "compile" => (cur' = cur /\ ntok' = ntok /\ cur.type = "EOF")
             /\ phase' = "parse" =>
                   /\ cur.type = "KEYWORD" /\ cur.value \in {"else", "end", "do"}
                   /\ ntok' = ntok + 1
       /\ (phase = "parse" /\ phase' = "parse") => ntok' > ntok]_vars

\* a loop body nested in an if-body has stopped at its `end`, not yet eaten
C13_Witness ==
    /\ phase = "parse"
    /\ Len(frames) >= 3
    /\ Top.ret = "loop_body" /\ Top.block_stack # <<>>
    /\ cur = KwTok("end")
    /\ StopToken

\* the loop condition's parse_block has returned condition_expr and the loop
\* branch goes on into the body
LoopConditionAccepted ==
    /\ phase = "parse" /\ Top.ret = "loop_cond" /\ StopToken
    /\ phase' = "parse"

\* C14: the loop branch goes on past its condition only when the condition's
\* parse left exactly one node.
\* The branch tests `not condition_expr` only: `loop 0 0 do end` is accepted
\* with a two-node condition.
C14_LoopConditionIsOneNode ==
    [][LoopConditionAccepted => Len(Top.block_stack) = 1]_vars

\* how many nodes of one kind the parser holds: in the node stacks of all
\* active blocks and in the locals (condition, if_body) of suspended branches
RECURSIVE CountHeld(_, _)
CountHeld(frs, kind) ==
    IF frs = <<>> THEN 0
    ELSE CountKindSeq(Head(frs).block_stack, kind) + CountKind(Head(frs).condition, kind)
            + CountKindSeq(Head(frs).if_body, kind) + CountHeld(Tail(frs), kind)

BlocksHeld(frs) == CountHeld(frs, "IfElse") + CountHeld(frs, "Loop")

\* C15: `if` with an empty node stack ends the parse with a ParserError; when
\* a then-body ends at anything but `else` or `end`, or an else-body or loop
\* body at anything but `end` (the input ending first), the parse ends with a
\* ParserError; an IfElse or Loop node comes into being only in the step that
\* eats its `end`, at any nesting depth, and the AST is handed over only with
\* no block open.
C15_BlocksClosedByEnd ==
    [][/\ (Iter /\ cur = KwTok("if") /\ Top.block_stack = <<>>) =>
              phase' = "error" /\ err' = ParserError
       /\ (phase = "parse" /\ StopToken /\ Top.ret = "if_body"
              /\ cur \notin {KwTok("else"), KwTok("end")}) =>
              phase' = "error" /\ err' = ParserError
       /\ (phase = "parse" /\ StopToken /\ Top.ret \in {"else_body", "loop_body"}
              /\ cur # KwTok("end")) =>
              phase' = "error" /\ err' = ParserError
       /\ (phase = "parse" /\ BlocksHeld(frames') # BlocksHeld(frames)) =>
              /\ cur = KwTok("end") /\ ntok' = ntok + 1
              /\ BlocksHeld(frames') = BlocksHeld(frames) + 1
              /\ Len(frames') = Len(frames) - 1
       /\ (phase = "parse" /\ phase' = "compile") =>
              /\ Len(frames) = 1
              /\ CountKindSeq(ast', "IfElse") + CountKindSeq(ast', "Loop")
                    = BlocksHeld(frames)]_vars

\* the input ended inside a loop body nested in another block
C15_Witness ==
    /\ phase = "error" /\ err = ParserError
    /\ cur.type = "EOF"
    /\ Len(frames) >= 3
    /\ Top.ret = "loop_body"
    /\ BlocksHeld(frames) = 0

\* C16: a `!` token met with a node on the block's stack replaces that node by
\* BangWrapper(node), leaving the stack's size as it was.
\* Only a `!` that directly follows an INTLIT is wrapped; the BANG branch
\* pushes a bare Bang() and pops nothing: `1 1 + !` leaves two nodes.
C16_BangWrapsPrecedingNode ==
    [][(Iter /\ cur.type = "BANG" /\ Top.block_stack # <<>>) =>
          /\ phase' = "parse"
          /\ Len(frames') = Len(frames)
          /\ frames'[Len(frames')].block_stack =
                Append(Pop1(Top.block_stack), BangWrapper(Last(Top.block_stack)))]_vars

\* C17: `set NAME` goes on, pushing StoreVar(NAME), only when NAME is in the
\* variable table filled by the `var` declarations read so far.
\* The set branch never looks NAME up: `set x` with no `var x` pushes
\* StoreVar(x).
C17_SetNeedsKnownVariable ==
    [][(Iter /\ cur = KwTok("set") /\ phase' = "parse") =>
          InList(Last(frames'[Len(frames')].block_stack).name, known_vars)]_vars


\* the LexerError the lexer of a source text runs into, "" if it reaches EOF
RECURSIVE LexerErrorFrom(_)
LexerErrorFrom(l) ==
    LET r == get_next_token(l) IN
    IF r.err # "" THEN r.err
    ELSE IF r.tok.type = "EOF" THEN ""
    ELSE LexerErrorFrom(r.lexer)

LexerErrorIn(src) == LexerErrorFrom(Lexer(src))

\* C18: lex() surfaces a LexerError to its caller: when the source text holds
\* an unterminated string literal or an unknown character, the call ends with
\* that error raised and hands back no value, None included.
C18_LexSurfacesLexerError ==
    (phase = "lexed" /\ calls = 0 /\ LexerErrorIn(lx.src) # "")
        => (err = LexerErrorIn(lx.src) /\ result = Pending)

\* C19: once get_next_token() has returned EOF, a later call returns the same
\* EOF token and leaves pos, line, column and current_char as they were; and
\* the list lex() returns holds exactly one EOF token, as its last element.
C19_Lex ==
    (phase = "lexed" /\ LexerErrorIn(lx.src) = "")
        => /\ result.kind = "list"
           /\ result.value # <<>>
           /\ \A i \in 1..Len(result.value) :
                 (result.value[i].type = "EOF") <=> (i = Len(result.value))

C19_Call ==
    (last.type = "EOF" /\ calls' = calls + 1)
        => (last' = last /\ lx' = lx /\ err' = "")

C19_EOFIsFinal == /\ []C19_Lex /\ [][C19_Call]_vars

\* lex() returned a list of several tokens, and the caller then asked the
\* exhausted lexer for a token twice
C19_Witness ==
    /\ phase = "lexed" /\ result.kind = "list" /\ Len(result.value) >= 3
    /\ calls = 2 /\ last.type = "EOF" /\ lx.pos = Len(lx.src) /\ lx.pos >= 3

\* the backslashes a string value ends with
RECURSIVE TrailingBackslashes(_)
TrailingBackslashes(v) ==
    IF v = <<>> \/ v[Len(v)] # "\\" THEN 0
    ELSE 1 + TrailingBackslashes(SubSeq(v, 1, Len(v) - 1))

\* C20: a double quote that a backslash escapes does not end a string
\* literal, so no STRING token's value stops at an escaping backslash.
C20_EscapedQuoteDoesNotTerminate ==
    last.type = "STRING" => TrailingBackslashes(last.value) % 2 = 0


\* the reserved words of the language
ReservedWords ==
    keywords \cup { <<"v", "a", "r">>, <<"s", "e", "t">>, <<"l", "o", "o", "p">>,
                    <<"d", "o">> }

\* C21: a word (a letter, then letters, digits, `_` or `-`) is lexed as
\* KEYWORD exactly when it is one of if, else, end, dup, print, input, extern,
\* var, set, loop, do, and as IDENTIFIER otherwise.
C21_WordClassification ==
    last.type \in {"KEYWORD", "IDENTIFIER"}
        => (last.type = "KEYWORD" <=> last.value \in ReservedWords)


\* the token kind of a one-character token
PunctuationKind ==
    [c \in {"+", "-", "*", "/", "?", "[", "]", "!"} |->
        CASE c = "+" -> "PLUS" [] c = "-" -> "MINUS" [] c = "*" -> "MULTIPLY"
          [] c = "/" -> "DIVIDE" [] c = "?" -> "COMPARE" [] c = "[" -> "LBRACK"
          [] c = "]" -> "RBRACK" [] c = "!" -> "BANG"]

\* src is white space and newlines, then one one-character token
OnePunctuation(src) ==
    /\ src # <<>>
    /\ src[Len(src)] \in DOMAIN PunctuationKind
    /\ \A i \in 1..(Len(src) - 1) : src[i] \in Spaces

\* the 1-based line and column of the character at index i of src
LineOf(src, i) == 1 + Cardinality({j \in 1..(i - 1) : src[j] = NL})
ColumnOf(src, i) ==
    LET nls == {j \in 1..(i - 1) : src[j] = NL}
    IN IF nls = {} THEN i ELSE i - CHOOSE j \in nls : \A k \in nls : k <= j

\* C22: a source text holding one token, after white space and newlines
\* only, lexes to that token followed by EOF, with the token's literal value
\* and the 1-based line and column of its first character; stated here for
\* the one-character kinds + - * / ? [ ] !.
C22_SingleTokenRoundTrip ==
    (phase = "lexed" /\ OnePunctuation(lx.src))
        => LET n == Len(lx.src) IN
           /\ result.kind = "list"
           /\ Len(result.value) = 2
           /\ result.value[1].type = PunctuationKind[lx.src[n]]
           /\ result.value[1].value = lx.src[n]
           /\ result.value[1].line = LineOf(lx.src, n)
           /\ result.value[1].column = ColumnOf(lx.src, n)
           /\ result.value[2].type = "EOF"


\* the parser and the code generator are through with the interpreter's text
RefCompared == profile = "ref" /\ phase \in {"run", "error"}

\* C23: for a text of number literals, `dup` and + - *, the parser and the
\* code generator accept it exactly when the toy interpreter evaluates it
\* without an error, and then the symbolic stack depth is the length of the
\* interpreter's final stack, every symbolic entry being a Number.
C23_CompilerAgreesWithInterpreter ==
    RefCompared =>
        /\ (phase = "run") <=> (interp.error = "")
        /\ phase = "run" =>
              /\ ctx.stack_depth = Len(interp.stack)
              /\ Len(ctx.stack_types) = ctx.stack_depth
              /\ \A i \in 1..Len(ctx.stack_types) : ctx.stack_types[i] = UInt

\* `1 2 dup +`-like texts: four words with a dup and an operator, accepted
\* by both, two values left
C23_Witness ==
    /\ RefCompared /\ phase = "run" /\ interp.error = ""
    /\ Len(interp.prog) = 4
    /\ \E i, j \in 1..4 : interp.prog[i] = "dup" /\ interp.prog[j] \in {"+", "-", "*"}
    /\ Len(interp.stack) = 2 /\ ctx.stack_depth = 2


\* the step compiles a top-level Compare node
CompilesCompare == phase = "compile" /\ ci <= Len(ast) /\ ast[ci].kind = "Compare"

\* the context once both operands of the Compare node are compiled
OperandsCompiled == CompileSeq(<<ast[ci].left, ast[ci].right>>, ctx)

\* both Number, or both string-like
Compatible(lt, rt) ==
    \/ lt = UInt /\ rt = UInt
    \/ lt \in {InlineString, Char} /\ rt \in {InlineString, Char}

ComparisonCalls(lines) ==
    {i \in 1..Len(lines) : lines[i] \in {CallF("compare_int"), CallF("compare_str")}}

\* C24: Compare.compile succeeds exactly when the two operand types it
\* consumes are both Number or both string-like; it then replaces the two
\* symbolic entries by one Number (depth one less); on a mixed pair it fails
\* with a type mismatch and emits no comparison call.
C24_Step ==
    (CompilesCompare /\ OperandsCompiled.err = ""
        /\ Len(OperandsCompiled.ctx.stack_types) >= 2)
    => LET c2 == OperandsCompiled.ctx
           n  == Len(c2.stack_types)
           ok == Compatible(c2.stack_types[n - 1], c2.stack_types[n])
       IN /\ (phase' = "compile") <=> ok
          /\ ok => /\ ctx'.stack_types = Append(Pop2(c2.stack_types), UInt)
                   /\ ctx'.stack_depth = c2.stack_depth - 1
                   /\ Cardinality(ComparisonCalls(code')) =
                          Cardinality(ComparisonCalls(code \o OperandsCompiled.code)) + 1
          /\ ~ok => /\ phase' = "error" /\ err' = TypeMismatch
                    /\ code' = code

CompilesKind(kind) == phase = "compile" /\ ci <= Len(ast) /\ ast[ci].kind = kind

\* C25: Extern.compile emits the line `extern NAME` and nothing else and
\* leaves the whole context as it was; ArrayDef.compile changes the label
\* counter and the variable table only: the symbolic type stack, the stack
\* depth and the string pool stay, and no emitted line pushes or pops.
C25_Step ==
    /\ CompilesKind("Extern") =>
          /\ ctx' = ctx
          /\ code' = Append(code, ExternDecl(ast[ci].ext))
          /\ phase' = "compile"
    /\ CompilesKind("ArrayDef") =>
          /\ phase' = "compile"
          /\ ctx'.stack_types = ctx.stack_types
          /\ ctx'.stack_depth = ctx.stack_depth
          /\ ctx'.strings = ctx.strings
          /\ ctx'.label_counter = ctx.label_counter + 1
          /\ DOMAIN ctx'.vars = DOMAIN ctx.vars \cup {ast[ci].name}
          /\ \A v \in DOMAIN ctx.vars \ {ast[ci].name} : ctx'.vars[v] = ctx.vars[v]
          /\ \A i \in (Len(code) + 1)..Len(code') :
                code'[i].op \notin {"push", "pop"} \/ code'[i].r = "rbp"

C25_DeclarationsKeepStack == [][C25_Step]_vars

\* `1 var x var uint` compiled: the declaration went through ArrayDef.compile
\* while a Number was on the symbolic stack
C25_Witness ==
    /\ phase = "compile" /\ ci = 3 /\ Len(ast) = 2
    /\ ast[1].kind = "Number" /\ ast[2].kind = "ArrayDef"
    /\ ctx.stack_depth = 1 /\ ctx.stack_types = <<UInt>>
    /\ DOMAIN ctx.vars = {ast[2].name} /\ ctx.label_counter = 1


\* the lexer of src after p calls of advance()
RECURSIVE LexerAt(_, _)
LexerAt(src, p) == IF p = 0 THEN Lexer(src) ELSE advance(LexerAt(src, p - 1))

\* the step is a get_next_token() call of lex() that returned a token
TokenReturned == tokens' # tokens

\* C26: a get_next_token() call that returns a token other than EOF has
\* moved pos forward, and one that returns EOF leaves pos at the end of the
\* text (otherwise it raises LexerError); each iteration of its loop that
\* skips white space or a comment moves pos forward, wherever in the text it
\* starts; and lex() comes to an end on every text.
C26_Call ==
    TokenReturned =>
        \/ last'.type # "EOF" /\ lx'.pos > lx.pos
        \/ last'.type = "EOF" /\ lx'.pos = Len(lx.src)

C26_Iteration ==
    \A p \in 0..Len(lx.src) :
        LET l == LexerAt(lx.src, p) IN
        Continues(l) => SkipIteration(l).pos > l.pos /\ SkipIteration(l).pos <= Len(lx.src)

C26_LexerProgress ==
    /\ [][C26_Call]_vars
    /\ []C26_Iteration
    /\ <>(phase = "lexed")

\* lex() ended on `/*a`, a text that stops inside a block comment
C26_Witness ==
    /\ profile = "lex-progress"
    /\ phase = "lexed" /\ lx.src = <<"/", "*", "a">>
    /\ result.kind = "list" /\ Len(result.value) = 1 /\ lx.pos = 3


\* C27: variable definition precedes use.  At compile time no LoadVar,
\* LoadVarIdx or StoreVar is compiled for a name missing from the code
\* generator's variable table; at run time no load or store of a variable's
\* cell executes before the allocation code of that variable (call new;
\* mov [label], rax) has stored into the cell, wherever the declaration stands.
AllocationStore(i) ==
    /\ i > 2 /\ code[i].op = "mov_store"
    /\ code[i - 1] = PopR("rbp") /\ code[i - 2] = CallF("new")

VariableAccess(i) ==
    \/ code[i].op \in {"mov_load", "mov_rdi_mem", "mov_al_idx"}
    \/ code[i].op = "mov_store" /\ ~AllocationStore(i)

CompiledWithName == ~(phase = "error" /\ err = UndefinedVar)

AllocatedBeforeUse ==
    (phase = "run" /\ pc <= Len(code) /\ VariableAccess(pc)) => code[pc].n \in DOMAIN mem

C27_DefinitionPrecedesUse == CompiledWithName /\ AllocatedBeforeUse


\* C28: in the toy interpreter, on every well-nested if/else/end text each
\* `if` pops one condition and exactly the selected branch executes: the
\* text ends without an exception and leaves the value stack that executing
\* the selected branches alone leaves, skipped tokens changing nothing and
\* the else/end of a nested `if` never ending the skip of an outer one.
RECURSIVE Nested(_, _, _)
Nested(ws, i, open) ==
    IF i > Len(ws) THEN open = <<>>
    ELSE IF ws[i] = "if" THEN Nested(ws, i + 1, Append(open, "if"))
    ELSE IF ws[i] = "else"
    THEN /\ open # <<>> /\ Last(open) = "if"
         /\ Nested(ws, i + 1, Append(Pop1(open), "else"))
    ELSE IF ws[i] = "end" THEN open # <<>> /\ Nested(ws, i + 1, Pop1(open))
    ELSE Nested(ws, i + 1, open)

WellNested(ws) == Nested(ws, 1, <<>>)

\* the position of the `end` (or, when stopAtElse, the `else`) matching the
\* `if` whose region starts at word i
RECURSIVE Matching(_, _, _, _)
Matching(ws, i, depth, stopAtElse) ==
    IF ws[i] = "if" THEN Matching(ws, i + 1, depth + 1, stopAtElse)
    ELSE IF ws[i] = "end"
    THEN IF depth = 1 THEN i ELSE Matching(ws, i + 1, depth - 1, stopAtElse)
    ELSE IF ws[i] = "else" /\ depth = 1 /\ stopAtElse THEN i
    ELSE Matching(ws, i + 1, depth, stopAtElse)

\* the value stack a well-nested text leaves when exactly the selected
\* branches execute, and whether every `if` executed found a condition to pop
RECURSIVE SelectedBranches(_, _, _)
SelectedBranches(ws, i, stack) ==
    IF i > Len(ws) THEN [stack |-> stack, popped |-> TRUE]
    ELSE IF ws[i] = "if"
    THEN IF stack = <<>> THEN [stack |-> stack, popped |-> FALSE]
         ELSE IF Last(stack) # 0 THEN SelectedBranches(ws, i + 1, Pop1(stack))
         ELSE SelectedBranches(ws, Matching(ws, i + 1, 1, TRUE) + 1, Pop1(stack))
    ELSE IF ws[i] = "else"
    THEN SelectedBranches(ws, Matching(ws, i + 1, 1, FALSE) + 1, stack)
    ELSE IF ws[i] = "end" THEN SelectedBranches(ws, i + 1, stack)
    ELSE SelectedBranches(ws, i + 1, Append(stack, IntOf(ws[i])))

Selected(ws) == SelectedBranches(ws, 1, <<>>)

C28_SelectedBranchExecutes ==
    (/\ profile = "nest" /\ phase = "interpreted"
     /\ WellNested(interp.prog) /\ Selected(interp.prog).popped)
        => /\ interp.error = ""
           /\ interp.stack = Selected(interp.prog).stack

============================================================================
